---- MODULE Spec2Model ----
(***************************************************************************)
(* Interaction Atlas: the session coordinators of the repository.          *)
(*                                                                         *)
(* Part I   the single-room WebSocket server with the join queue           *)
(*          (src/server.js lines 968-1583).                                *)
(* Part II  the multi-room WebSocket server with a per-room join lock      *)
(*          (src/unnamed/part_002).                                        *)
(* Part III the single-room server with a waiting queue                    *)
(*          (src/server.js lines 456-967).                                 *)
(* Part IV  the Socket.io server with its Room class                       *)
(*          (src/server.js lines 1-455).                                   *)
(*                                                                         *)
(* Time is counted in milliseconds, as in the source.  A WebSocket is a    *)
(* handle in Conns; its readyState is OPEN, CLOSING or CLOSED as in the ws *)
(* library, and CLOSING is split by who started the closing handshake: a   *)
(* socket the server closed can still deliver commands of its peer until   *)
(* the 'close' event, a socket whose peer went away cannot.                *)
(***************************************************************************)
EXTENDS Integers, Sequences, FiniteSets, Bags, TLC

(* ------------------------------ bounds -------------------------------- *)
\* The room capacity.  The source sets MAX_PARTICIPANTS = 20
\* (src/server.js:973, src/unnamed/part_002:10).  The model scales it down,
\* per specification: a small room where admission is explored with every
\* way a socket can come and go, a larger one where a vote needs four
\* distinct voters.
AdmissionCap == 2
VotingCap == 5
\* Sockets the WebSocket server ever accepts, per specification.
AdmissionConns == 3
VotingConns == 5
PhaseConns == 2
SectionConns == 3
ContentConns == 3
EraseConns == 2
\* A tally of a target that is no participant grows without limit in the code.
MaxTally == 5
\* Pending request_voting timers: every request adds one, without limit in the code.
MaxRequests == 1
\* Targets with an open tally at a time, where a specification bounds them.
MaxTargets == 1
\* Invitees a create_section names, where a specification bounds them.
MaxInvitees == 1
\* Sections ever created, strokes and labels in the store, points per stroke
\* and per command, and the coordinates and radii a client sends.
MaxSections == 2
MaxDrawings == 1
MaxStrokes == 3
StrokeConns == 2
CarryConns == 2
ReuseConns == 3
\* Sockets, target ids and votes per target where stale votes are explored.
StaleConns == 3
StaleTargets == 3
StaleTally == 2
MaxTexts == 1
MaxPoints == 2
MaxCoord == 2
MaxY == 1
\* The rooms of the multi-room server, the sockets it accepts, the joins that
\* wait on a room's lock at a time, and the participant ids it issues.
MaxRooms == 2
RoomConns == 2
MaxPending == 2
MaxIds == 4
\* Sockets the multi-room server accepts where join operations fail
FailConns == 3
MaxRadius == 2
\* Sockets the queued server accepts where its sections are explored
QueuedConns == 2
\* Participant ids the queued server issues.
QueuedMaxIds == 5
\* Sockets the queued server accepts where its waiting list is explored.
WaitingConns == 5
\* Sockets the Socket.io server accepts, its pool of numbers, the numbers it
\* issues past the pool, the sections it creates, and the end of its clock.
IoConns == 5
IoCap == 5
IoMaxNumber == 6
IoRepeaters == 1
IoCreators == 2
IoMaxSections == 1
IoMaxTime == 14405000
\* The clock moves in steps of at most TimeStep ms and stops at MaxTime.
TimeStep == 1200000
MaxTime == 3700000

(* ------------------------- program constants -------------------------- *)
VoteThreshold == 4
RoundDelay == 60000
SettleDelay == 1000
RoundMinutes == 20
MsPerMinute == 60000
SectionCap == 3
DefaultRadius == 30
TeardownDelay == 300000
VotingTime == 120000
RoomLife == 14400000
ClearDelay == 5000
MaxInviteeNumbers == 2

MaxConns == 5
Conns == 1..MaxConns
NoId == 0
NoTime == -1

VARIABLES
  cap,           \* MAX_PARTICIPANTS of the running server
  ws,            \* handle -> [status, pid, num]: readyState, _participantId, _participantNumber
  participants,  \* room.participants: participantId -> [number, ws]
  votes,         \* room.votes: targetId -> count
  sections,      \* room.sections
  drawings,      \* room.drawings
  texts,         \* room.texts
  votingRound,   \* room.votingRound
  sessionPhase,  \* room.sessionPhase
  now,           \* Date.now() - room.startTime
  timers,        \* pending setTimeout callbacks, a bag of [kind, round, due]
  nextSec,       \* the next section id the generator issues
  sent,          \* the messages sent during the last step
  voters,        \* history: targetId -> the voters counted since the last voting_started
  lastRound,     \* history: the round of the last voting_started
  roundSince,    \* history: the time of the voting_started of the round in
                 \* progress, NoTime when no round is
  last,          \* history: the command handled in the last step, where a
                 \* specification takes note of it
  conn,          \* Part II: handle -> [status, roomId, participantId, participantNumber],
                 \* the readyState and the variables of the connection's closure
  rooms,         \* Part II: rooms, roomId -> Room
  roomJoinLocks, \* Part II: roomJoinLocks, roomId -> the sockets whose join
                 \* operation waits on the room's promise chain, in chain order
  joinResults,   \* Part II: the results of handleJoin whose 'join' handlers
                 \* have not resumed yet
  nextId,        \* Part II: the number of participant ids issued
  qconn,         \* Part III: handle -> [status, participantId, assignedNumber],
                 \* the readyState and the variables of the connection's closure
  qroom,         \* Part III: room, with the number of participant ids issued
  iosock,        \* Part IV: socket id -> NONE, connected or disconnected
  ioroom,        \* Part IV: room, with the number of section ids issued
  ioballots      \* Part IV, history: voter -> the sockets whose number the voter's
                 \* ballot of the round in progress names

vars == <<cap, ws, participants, votes, sections, drawings, texts, votingRound,
          sessionPhase, now, timers, nextSec, sent, voters, lastRound, roundSince,
          last,
          conn, rooms, roomJoinLocks, joinResults, nextId, qconn, qroom,
          iosock, ioroom, ioballots>>

\* The state of the multi-room server, of the single-room one and of the
\* queued one.
multiRoom == <<conn, rooms, roomJoinLocks, joinResults, nextId>>
singleRoom == <<ws, participants, votes, sections, drawings, texts, votingRound,
                sessionPhase, nextSec, voters, lastRound, roundSince>>
queuedRoom == <<qconn, qroom>>
socketRoom == <<iosock, ioroom, ioballots>>

\* A capacity that lets one more in.
MAX_PARTICIPANTS_plus == cap + 1

\* const MAX_PARTICIPANTS = 20, scaled to the capacity of the specification
MAX_PARTICIPANTS == cap

(* ------------------------------ helpers ------------------------------- *)
Min(a, b) == IF a <= b THEN a ELSE b

Restrict(f, S) == [x \in S |-> f[x]]

\* WebSocket.readyState
ReadyState(w, c) ==
  CASE w[c].status = "OPEN" -> "OPEN"
    [] w[c].status \in {"CLOSING_LOCAL", "CLOSING_REMOTE"} -> "CLOSING"
    [] OTHER -> "CLOSED"

IsOpen(w, c) == ReadyState(w, c) = "OPEN"

\* ws.close() called by the server
WsClose(w, c) ==
  IF w[c].status = "OPEN" THEN [w EXCEPT ![c].status = "CLOSING_LOCAL"] ELSE w

\* A command of the peer of c can still reach its message handler.
CanReceive(c) == ws[c].status \in {"OPEN", "CLOSING_LOCAL"}

\* A message of type t to connection c; a and b are its payload.
Msg(c, t, a, b) == [to |-> c, type |-> t, arg |-> <<a, b>>]

EmptyFn == [x \in {} |-> 0]

\* undefined, as the value of a promise
Undefined == [undefined |-> TRUE]

\* The history of commands: the step handled command op of socket c with the
\* arguments arg, or the step is not noted.
NoCommand == [op |-> "none", c |-> 0, arg |-> <<>>]
Noted(op, c, arg) == last' = [op |-> op, c |-> c, arg |-> arg]
Unnoted == last' = NoCommand

(***************************************************************************)
(* Part I.  The single-room WebSocket server, src/server.js 968-1583.      *)
(***************************************************************************)

\* getActiveCount(): the participants whose socket is OPEN
getActiveCount(w, parts) ==
  Cardinality({p \in DOMAIN parts : IsOpen(w, parts[p].ws)})

\* A removal that leaves the sections as they are.
StripMembers_none(secs, ids) == secs

\* The "Remove from sections" loop of cleanupDeadConnections, removeParticipant
\* and ws.on('close'): the ids leave every member list, and a section left
\* without members leaves room.sections.
StripMembers(secs, ids) ==
  LET stripped == [i \in 1..Len(secs) |->
                     [secs[i] EXCEPT !.members =
                        SelectSeq(@, LAMBDA m : m.id \notin ids)]]
  IN SelectSeq(stripped, LAMBDA s : Len(s.members) # 0)

\* cleanupDeadConnections(): every participant whose socket is not OPEN is
\* deleted, with its tally and its section memberships.
cleanupDeadConnections(w, parts, vts, secs) ==
  LET toDelete == {p \in DOMAIN parts : ~IsOpen(w, parts[p].ws)}
  IN [participants |-> Restrict(parts, DOMAIN parts \ toDelete),
      votes        |-> Restrict(vts, DOMAIN vts \ toDelete),
      sections     |-> StripMembers(secs, toDelete)]

\* A number allocation that counts instead of searching.
getAvailableNumber_count(w, parts) ==
  IF getActiveCount(w, parts) >= MAX_PARTICIPANTS THEN 0
  ELSE getActiveCount(w, parts) + 1

\* getAvailableNumber(): the first of 1..MAX_PARTICIPANTS no OPEN participant
\* holds, null (0) when there is none.
getAvailableNumber(w, parts) ==
  LET usedNumbers == {parts[p].number : p \in {q \in DOMAIN parts : IsOpen(w, parts[q].ws)}}
      free == (1..MAX_PARTICIPANTS) \ usedNumbers
  IN IF free = {} THEN 0 ELSE CHOOSE i \in free : \A j \in free : i <= j

\* getActiveParticipantsList().map(p => p.number): the numbers of the OPEN
\* participants.
getActiveNumbers(w, parts) ==
  {parts[p].number : p \in {q \in DOMAIN parts : IsOpen(w, parts[q].ws)}}

\* broadcastToRoom(message, excludeWs): one copy to every OPEN participant
\* socket other than excludeWs (0: nobody is excluded).
broadcastToRoom(w, parts, t, a, b, excludeWs) ==
  {Msg(parts[p].ws, t, a, b) :
     p \in {q \in DOMAIN parts : parts[q].ws # excludeWs /\ IsOpen(w, parts[q].ws)}}

\* The delay of scheduleVoting(round, delay) in startVotingPhases.
RoundStart(round) == round * RoundMinutes * MsPerMinute

\* startVotingPhases(): unless a round is running, one timer per round whose
\* start lies ahead.
startVotingPhases(tm, vr, t) ==
  IF vr > 0 THEN tm
  ELSE tm (+) SetToBag({[kind |-> "start", round |-> r, due |-> t + (RoundStart(r) - t)] :
                          r \in {q \in 1..3 : RoundStart(q) - t > 0}})

\* removeParticipant(participantId) applied to the room (w, parts, vts, secs):
\* the new room and the messages sent.
removeParticipant(w, parts, vts, secs, participantId) ==
  IF participantId \notin DOMAIN parts
  THEN [ws |-> w, participants |-> parts, votes |-> vts, sections |-> secs, out |-> {}]
  ELSE LET c  == parts[participantId].ws
           w2 == WsClose(w, c)
           p2 == Restrict(parts, DOMAIN parts \ {participantId})
       IN [ws |-> w2,
           participants |-> p2,
           votes |-> Restrict(vts, DOMAIN vts \ {participantId}),
           sections |-> StripMembers(secs, {participantId}),
           out |-> (IF IsOpen(w, c) THEN {Msg(c, "removed", 0, 0)} ELSE {})
                   \cup broadcastToRoom(w2, p2, "participant_removed",
                                        participantId, parts[participantId].number, 0)]

(* ------------------------- state after start-up ----------------------- *)
InitServers(k) ==
  /\ cap = k
  /\ ws = [c \in Conns |-> [status |-> "NONE", pid |-> NoId, num |-> 0]]
  /\ participants = EmptyFn
  /\ votes = EmptyFn
  /\ sections = <<>>
  /\ drawings = <<>>
  /\ texts = <<>>
  /\ votingRound = 0
  /\ sessionPhase = "open"
  /\ now = 0
  /\ timers = EmptyBag
  /\ nextSec = 1
  /\ sent = {}
  /\ voters = EmptyFn
  /\ lastRound = 0
  /\ roundSince = NoTime
  /\ last = NoCommand
  /\ conn = [c \in Conns |-> [status |-> "NONE", roomId |-> 0, participantId |-> NoId,
                              participantNumber |-> 0]]
  /\ rooms = EmptyFn
  /\ roomJoinLocks = EmptyFn
  /\ joinResults = <<>>
  /\ nextId = 0
  /\ qconn = [c \in Conns |-> [status |-> "NONE", participantId |-> NoId,
                               assignedNumber |-> 0]]
  /\ qroom = [participants |-> EmptyFn, sessionPhase |-> "open", votingRound |-> 0,
              sections |-> <<>>, availableNumbers |-> 1..k, waitingQueue |-> <<>>,
              issued |-> 0, votes |-> EmptyFn]
  /\ iosock = [c \in Conns |-> "NONE"]
  /\ ioroom = [participants |-> EmptyFn, privateSections |-> EmptyFn, votingRounds |-> 0,
               votingPhase |-> FALSE, votes |-> EmptyFn, startTime |-> FALSE,
               roomActive |-> FALSE, availableNumbers |-> [i \in 1..k |-> i],
               nextNumber |-> 1, nextSection |-> 1]
  /\ ioballots = EmptyFn

connVars == <<ws, participants>>
voteVars == <<votes, voters>>
phaseVars == <<votingRound, sessionPhase, lastRound, roundSince>>
contentVars == <<drawings, texts>>
clockVars == <<now, timers>>

(* ----------------------------- connections ---------------------------- *)
\* wss.on('connection'): the next socket is accepted; limit bounds how many
\* sockets a specification ever accepts.
Connect(limit) ==
  /\ \E c \in Conns :
       /\ c <= limit
       /\ ws[c].status = "NONE"
       /\ \A d \in Conns : d < c => ws[d].status # "NONE"
       /\ ws' = [ws EXCEPT ![c].status = "OPEN"]
  /\ sent' = {}
  /\ UNCHANGED <<cap, socketRoom, queuedRoom, multiRoom, participants, sections, nextSec, voteVars, phaseVars,
                 contentVars, clockVars>>

\* The peer closes or the network drops: readyState leaves OPEN before the
\* 'close' event is emitted.
PeerClose(c) ==
  /\ ws[c].status = "OPEN"
  /\ ws' = [ws EXCEPT ![c].status = "CLOSING_REMOTE"]
  /\ sent' = {}
  /\ UNCHANGED <<cap, socketRoom, queuedRoom, multiRoom, participants, sections, nextSec, voteVars, phaseVars,
                 contentVars, clockVars>>

\* ws.on('close')
OnClose(c) ==
  /\ ws[c].status \in {"CLOSING_LOCAL", "CLOSING_REMOTE"}
  /\ LET participantId == ws[c].pid
         w2 == [ws EXCEPT ![c].status = "CLOSED"]
     IN /\ ws' = w2
        /\ IF participantId # NoId /\ participantId \in DOMAIN participants
           THEN LET p2 == Restrict(participants, DOMAIN participants \ {participantId})
                IN /\ participants' = p2
                   /\ sections' = StripMembers(sections, {participantId})
                   /\ sent' = broadcastToRoom(w2, p2, "participant_left", participantId,
                                              participants[participantId].number, c)
           ELSE /\ sent' = {}
                /\ UNCHANGED <<participants, sections>>
  /\ UNCHANGED <<cap, socketRoom, queuedRoom, multiRoom, nextSec, voteVars, phaseVars, contentVars, clockVars>>

(* ------------------------------ admission ----------------------------- *)
\* `p-${Date.now()}-${Math.random()...}`: a fresh opaque id.  A socket is
\* admitted at most once (its _participantId stays set), so the id issued to
\* socket c is named after c.
NewId(c) == c

\* A rejection that tells the socket nothing.
RejectFull_silent(w, c) == {}

\* The three "Room is full" branches of processJoinQueue: an error to an OPEN
\* socket, which is then closed.
RejectFull(w, c) == IF IsOpen(w, c) THEN {Msg(c, "error", 1, 0)} ELSE {}

\* The capacity test of processJoinQueue.
RoomIsFull(activeCount) == activeCount >= MAX_PARTICIPANTS

\* case 'join' with handleJoin and processJoinQueue.  Of the command only its
\* type is read: no other field, ageVerified among them.  The queue holds this
\* one request and is drained before the handler's turn ends (processJoinQueue
\* has no suspension point), so joinQueue and joinInProgress are back to
\* empty and false after every step.  throws: ws.send on a socket that is not
\* OPEN raises in old versions of the ws library and is a no-op in new ones.
Join(c) ==
  /\ CanReceive(c)
  /\ IF ws[c].pid # NoId
     THEN \* Duplicate join attempt ignored
          /\ sent' = {}
          /\ UNCHANGED <<ws, participants, votes, sections, timers>>
     ELSE LET cl == cleanupDeadConnections(ws, participants, votes, sections)
              activeCount == getActiveCount(ws, cl.participants)
              participantNumber == getAvailableNumber(ws, cl.participants)
          IN IF RoomIsFull(activeCount)
                \/ participantNumber = 0 \/ RoomIsFull(activeCount)
             THEN /\ participants' = cl.participants
                  /\ votes' = cl.votes
                  /\ sections' = cl.sections
                  /\ sent' = RejectFull(ws, c)
                  /\ ws' = WsClose(ws, c)
                  /\ UNCHANGED timers
             ELSE LET participantId == NewId(c)
                      p2 == cl.participants @@
                              (participantId :> [number |-> participantNumber, ws |-> c])
                      w2 == [ws EXCEPT ![c].pid = participantId,
                                       ![c].num = participantNumber]
                      finalCount == getActiveCount(w2, p2)
                  IN /\ votes' = cl.votes
                     /\ sections' = cl.sections
                     /\ IF finalCount > MAX_PARTICIPANTS
                        THEN /\ participants' = cl.participants
                             /\ sent' = RejectFull(w2, c)
                             /\ ws' = WsClose(w2, c)
                             /\ UNCHANGED timers
                        ELSE /\ participants' = p2
                             /\ ws' = w2
                             /\ \E throws \in (IF IsOpen(w2, c) THEN {FALSE} ELSE BOOLEAN) :
                                  IF throws
                                  THEN sent' = {} /\ UNCHANGED timers
                                  ELSE /\ sent' =
                                            (IF IsOpen(w2, c)
                                             THEN {Msg(c, "joined", participantId, participantNumber)}
                                             ELSE {})
                                            \cup broadcastToRoom(w2, p2, "participant_joined",
                                                    participantId, participantNumber, c)
                                       /\ timers' = startVotingPhases(timers, votingRound, now)
  /\ UNCHANGED <<cap, socketRoom, queuedRoom, multiRoom, nextSec, voters, phaseVars, contentVars, now>>

(* ------------------------------- voting ------------------------------- *)
Tally(vts, t) == IF t \in DOMAIN vts THEN vts[t] ELSE 0

VotersOf(vs, t) == IF t \in DOMAIN vs THEN vs[t] ELSE {}

\* The ids issued so far.
IssuedIds == {ws[c].pid : c \in Conns} \ {NoId}

\* A threshold test that is off by one.
ReachedThreshold_strict(n) == n > VoteThreshold

\* if (room.votes[data.targetId] >= 4)
ReachedThreshold(n) == n >= VoteThreshold

\* room.votes[data.targetId]++ (after the tally is created at 0)
CountVote(vts, voter, targetId) ==
  [x \in DOMAIN vts \cup {targetId} |->
     IF x = targetId THEN Tally(vts, targetId) + 1 ELSE vts[x]]

\* A counted vote: the handler of vote_remove passes its guard.
VoteCounts(c) == ws[c].pid # NoId /\ votingRound > 0

\* The history of who voted: every counted vote is recorded, or none is (a
\* specification whose claims do not speak of voters leaves the history empty).
RecordVoter(c, targetId) ==
  voters' = IF VoteCounts(c)
            THEN [x \in DOMAIN voters \cup {targetId} |->
                    IF x = targetId THEN VotersOf(voters, x) \cup {ws[c].pid}
                    ELSE voters[x]]
            ELSE voters

\* case 'vote_remove' (the history variable voters is left to RecordVoter)
VoteRemove(c, targetId) ==
  /\ CanReceive(c)
  /\ Tally(votes, targetId) < MaxTally
  /\ IF VoteCounts(c)
     THEN LET v2 == CountVote(votes, ws[c].pid, targetId)
              n  == v2[targetId]
              up == broadcastToRoom(ws, participants, "vote_update", targetId, n, 0)
              rm == removeParticipant(ws, participants, v2, sections, targetId)
          IN IF ReachedThreshold(n)
             THEN /\ ws' = rm.ws
                  /\ participants' = rm.participants
                  /\ votes' = rm.votes
                  /\ sections' = rm.sections
                  /\ sent' = up \cup rm.out
             ELSE /\ votes' = v2
                  /\ sent' = up
                  /\ UNCHANGED <<ws, participants, sections>>
     ELSE /\ sent' = {}
          /\ UNCHANGED <<ws, participants, votes, sections>>
  /\ UNCHANGED <<cap, socketRoom, queuedRoom, multiRoom, nextSec, phaseVars, contentVars, clockVars>>

\* data.round || 1
RequestedRound(round) == IF round = 0 THEN 1 ELSE round

\* case 'request_voting'
RequestVoting(c, round) ==
  /\ CanReceive(c)
  /\ CopiesIn([kind |-> "endReq", round |-> 0, due |-> now + RoundDelay], timers) < MaxRequests
  /\ IF ws[c].pid # NoId
     THEN /\ votingRound' = RequestedRound(round)
          /\ lastRound' = RequestedRound(round)
          /\ roundSince' = now
          /\ votes' = EmptyFn
          /\ voters' = EmptyFn
          /\ sent' = broadcastToRoom(ws, participants, "voting_started",
                                     RequestedRound(round), 0, 0)
          /\ timers' = timers (+) SetToBag({[kind |-> "endReq", round |-> 0,
                                            due |-> now + RoundDelay]})
     ELSE /\ sent' = {}
          /\ UNCHANGED <<votingRound, lastRound, roundSince, votes, voters, timers>>
  /\ UNCHANGED <<cap, socketRoom, queuedRoom, multiRoom, connVars, sections, nextSec, sessionPhase, contentVars, now>>

\* case 'request_sections_phase'
RequestSectionsPhase(c) ==
  /\ CanReceive(c)
  /\ IF ws[c].pid # NoId
     THEN /\ sessionPhase' = "sections"
          /\ sent' = broadcastToRoom(ws, participants, "sections_phase", 0, 0, 0)
     ELSE /\ sent' = {}
          /\ UNCHANGED sessionPhase
  /\ UNCHANGED <<cap, socketRoom, queuedRoom, multiRoom, connVars, sections, nextSec, voteVars, votingRound, lastRound,
                 roundSince,
                 contentVars, clockVars>>

(* ------------------------------ sections ------------------------------ *)
\* The index of the first section of secs that is locked and lists
\* participantId, 0 when there is none: the find() of canInteract and
\* getParticipantSection.
LockedSectionOf(secs, participantId) ==
  LET I == {i \in 1..Len(secs) :
              /\ secs[i].locked
              /\ \E k \in 1..Len(secs[i].members) : secs[i].members[k].id = participantId}
  IN IF I = {} THEN 0 ELSE CHOOSE i \in I : \A j \in I : i <= j

\* canInteract(participantId)
canInteract(secs, phase, participantId) ==
  IF phase = "open" THEN TRUE ELSE LockedSectionOf(secs, participantId) # 0

\* getParticipantSection(participantId); 0 stands for null
getParticipantSection(secs, phase, participantId) ==
  IF phase = "open" THEN 0
  ELSE IF LockedSectionOf(secs, participantId) = 0 THEN 0
  ELSE secs[LockedSectionOf(secs, participantId)].id

\* A size test that lets one invitee too many through.
ExceedsSectionCap_loose(inviteeIds) == Len(inviteeIds) > SectionCap

\* if (data.inviteeIds.length + 1 > 3)
ExceedsSectionCap(inviteeIds) == Len(inviteeIds) + 1 > SectionCap

\* case 'create_section'.  A member record is {id, number}; its accepted
\* field is absent (falsy) until the member accepts.
CreateSection(c, inviteeIds) ==
  /\ CanReceive(c)
  /\ nextSec <= MaxSections
  /\ LET participantId == ws[c].pid
         participantNumber == ws[c].num
     IN IF participantId # NoId /\ participantId \in DOMAIN participants
        THEN IF ExceedsSectionCap(inviteeIds)
             THEN /\ sent' = (IF IsOpen(ws, c) THEN {Msg(c, "error", 2, 0)} ELSE {})
                  /\ UNCHANGED <<sections, nextSec>>
             ELSE LET invited == SelectSeq(inviteeIds, LAMBDA id :
                                   /\ id \in DOMAIN participants
                                   /\ IsOpen(ws, participants[id].ws))
                      members == <<[id |-> participantId, number |-> participantNumber,
                                    accepted |-> FALSE]>>
                                 \o [i \in 1..Len(invited) |->
                                       [id |-> invited[i],
                                        number |-> participants[invited[i]].number,
                                        accepted |-> FALSE]]
                      section == [id |-> nextSec, members |-> members, locked |-> FALSE]
                  IN /\ sections' = Append(sections, section)
                     /\ nextSec' = nextSec + 1
                     /\ sent' = {Msg(participants[invited[i]].ws, "section_invitation",
                                     nextSec, participantNumber) :
                                   i \in {j \in 1..Len(invited) : invited[j] # participantId}}
                                \cup broadcastToRoom(ws, participants, "section_created",
                                                     nextSec, 0, c)
        ELSE /\ sent' = {}
             /\ UNCHANGED <<sections, nextSec>>
  /\ UNCHANGED <<cap, socketRoom, queuedRoom, multiRoom, connVars, voteVars, phaseVars, contentVars, clockVars>>

\* A lock test that is content with one acceptance.
AllAccepted_some(members) == \E k \in 1..Len(members) : members[k].accepted

\* section.members.every(m => m.accepted)
AllAccepted(members) == \A k \in 1..Len(members) : members[k].accepted

\* case 'accept_section_invitation'
AcceptSectionInvitation(c, sectionId) ==
  /\ CanReceive(c)
  /\ LET participantId == ws[c].pid
         I == {i \in 1..Len(sections) : sections[i].id = sectionId}
     IN IF participantId # NoId /\ I # {}
        THEN LET i == CHOOSE j \in I : \A l \in I : j <= l
                 section == sections[i]
                 K == {k \in 1..Len(section.members) :
                         section.members[k].id = participantId}
             IN IF K # {} /\ ~section.members[CHOOSE k \in K : \A l \in K : k <= l].accepted
                THEN LET k == CHOOSE j \in K : \A l \in K : j <= l
                         members == [section.members EXCEPT ![k].accepted = TRUE]
                     IN IF AllAccepted(members)
                        THEN /\ sections' = [sections EXCEPT ![i].members = members,
                                                             ![i].locked = TRUE]
                             /\ sent' = {Msg(participants[members[m].id].ws, "section_joined",
                                             sectionId, 0) :
                                           m \in {j \in 1..Len(members) :
                                                    /\ members[j].id \in DOMAIN participants
                                                    /\ IsOpen(ws, participants[members[j].id].ws)}}
                        ELSE /\ sections' = [sections EXCEPT ![i].members = members]
                             /\ sent' = {}
                ELSE sent' = {} /\ UNCHANGED sections
        ELSE sent' = {} /\ UNCHANGED sections
  /\ UNCHANGED <<cap, socketRoom, queuedRoom, multiRoom, connVars, nextSec, voteVars, phaseVars, contentVars, clockVars>>

(* ------------------------------- content ------------------------------ *)
\* The integer part of Math.sqrt(n).
ISqrt(n) == CHOOSE k \in 0..n : k * k <= n /\ n < (k + 1) * (k + 1)

\* Math.pow(p.x - eraseX, 2) + Math.pow(p.y - eraseY, 2)
SquaredDist(p, x, y) == (p.x - x) * (p.x - x) + (p.y - y) * (p.y - y)

\* A comparison that also takes the elements at distance exactly eraseRadius.
DistLess_orEqual(p, x, y, eraseRadius) == ISqrt(SquaredDist(p, x, y)) <= eraseRadius

\* dist < eraseRadius, with dist = Math.sqrt(...): for an integer radius the
\* square root is below it exactly when its integer part is.
DistLess(p, x, y, eraseRadius) == ISqrt(SquaredDist(p, x, y)) < eraseRadius

\* data.radius || 30
EraseRadius(radius) == IF radius = 0 THEN DefaultRadius ELSE radius

\* draw.paths.some(path => dist < eraseRadius)
shouldErase(draw, x, y, eraseRadius) ==
  \E k \in 1..Len(draw.paths) : DistLess(draw.paths[k], x, y, eraseRadius)

\* case 'draw'
Draw(c, paths) ==
  /\ CanReceive(c)
  /\ LET participantId == ws[c].pid
         participantNumber == ws[c].num
     IN IF participantId # NoId /\ canInteract(sections, sessionPhase, participantId)
        THEN /\ drawings' = Append(drawings,
                   [number |-> participantNumber, paths |-> paths,
                    sectionId |-> getParticipantSection(sections, sessionPhase, participantId)])
             /\ sent' = broadcastToRoom(ws, participants, "drawing", Len(drawings) + 1, 0, c)
        ELSE /\ sent' = {}
             /\ UNCHANGED drawings
  /\ UNCHANGED <<cap, socketRoom, queuedRoom, multiRoom, connVars, sections, nextSec, voteVars, phaseVars, texts, clockVars>>

\* case 'draw_update'
DrawUpdate(c, paths) ==
  /\ CanReceive(c)
  /\ (drawings # <<>> => Len(drawings[Len(drawings)].paths) + Len(paths) <= MaxPoints)
  /\ LET participantId == ws[c].pid
         participantNumber == ws[c].num
     IN IF participantId # NoId /\ canInteract(sections, sessionPhase, participantId)
        THEN /\ drawings' = (IF drawings # <<>>
                                /\ drawings[Len(drawings)].number = participantNumber
                             THEN [drawings EXCEPT ![Len(drawings)].paths = @ \o paths]
                             ELSE drawings)
             /\ sent' = broadcastToRoom(ws, participants, "drawing", Len(drawings), 0, c)
        ELSE /\ sent' = {}
             /\ UNCHANGED drawings
  /\ UNCHANGED <<cap, socketRoom, queuedRoom, multiRoom, connVars, sections, nextSec, voteVars, phaseVars, texts, clockVars>>

\* case 'text'
Text(c, x, y) ==
  /\ CanReceive(c)
  /\ Len(texts) < MaxTexts
  /\ LET participantId == ws[c].pid
         participantNumber == ws[c].num
     IN IF participantId # NoId /\ canInteract(sections, sessionPhase, participantId)
        THEN /\ texts' = Append(texts,
                   [number |-> participantNumber, x |-> x, y |-> y,
                    sectionId |-> getParticipantSection(sections, sessionPhase, participantId)])
             /\ sent' = broadcastToRoom(ws, participants, "text_added", Len(texts) + 1, 0, c)
        ELSE /\ sent' = {}
             /\ UNCHANGED texts
  /\ UNCHANGED <<cap, socketRoom, queuedRoom, multiRoom, connVars, sections, nextSec, voteVars, phaseVars, drawings, clockVars>>

\* case 'erase'
Erase(c, x, y, radius) ==
  /\ CanReceive(c)
  /\ LET participantId == ws[c].pid
         participantNumber == ws[c].num
         eraseRadius == EraseRadius(radius)
         sectionId == getParticipantSection(sections, sessionPhase, participantId)
     IN IF participantId # NoId /\ canInteract(sections, sessionPhase, participantId)
        THEN /\ IF sessionPhase = "open"
                THEN /\ drawings' = SelectSeq(drawings, LAMBDA draw :
                                       ~shouldErase(draw, x, y, eraseRadius))
                     /\ texts' = SelectSeq(texts, LAMBDA text :
                                       ~DistLess(text, x, y, eraseRadius))
                ELSE /\ drawings' = SelectSeq(drawings, LAMBDA draw :
                                       \/ draw.sectionId # sectionId
                                       \/ ~shouldErase(draw, x, y, eraseRadius))
                     /\ texts' = SelectSeq(texts, LAMBDA text :
                                       \/ text.sectionId # sectionId
                                       \/ ~DistLess(text, x, y, eraseRadius))
             /\ sent' = broadcastToRoom(ws, participants, "erased", participantNumber, 0, c)
        ELSE /\ sent' = {}
             /\ UNCHANGED <<drawings, texts>>
  /\ UNCHANGED <<cap, socketRoom, queuedRoom, multiRoom, connVars, sections, nextSec, voteVars, phaseVars, clockVars>>

(* ------------------------------- timers ------------------------------- *)
\* A setTimeout callback runs once its time has come.
TimerFire(t) ==
  /\ BagIn(t, timers)
  /\ t.due <= now
  /\ LET rest == timers (-) SetToBag({t})
     IN CASE t.kind = "start" ->
               \* the callback of scheduleVoting(round, delay)
               /\ votingRound' = t.round
               /\ lastRound' = t.round
               /\ roundSince' = now
               /\ votes' = EmptyFn
               /\ voters' = EmptyFn
               /\ sent' = broadcastToRoom(ws, participants, "voting_started", t.round, 0, 0)
               /\ timers' = rest (+) SetToBag({[kind |-> "end", round |-> t.round,
                                                due |-> now + RoundDelay]})
               /\ UNCHANGED sessionPhase
          [] t.kind = "end" ->
               \* 60 s later: the round ends; after round 3 the sections timer
               /\ votingRound' = 0
               /\ sent' = broadcastToRoom(ws, participants, "voting_ended", 0, 0, 0)
               /\ timers' = (IF t.round = 3
                             THEN rest (+) SetToBag({[kind |-> "sections", round |-> 0,
                                                      due |-> now + SettleDelay]})
                             ELSE rest)
               /\ roundSince' = NoTime
               /\ UNCHANGED <<voteVars, sessionPhase, lastRound>>
          [] t.kind = "endReq" ->
               \* the timer of request_voting
               /\ votingRound' = 0
               /\ sent' = broadcastToRoom(ws, participants, "voting_ended", 0, 0, 0)
               /\ timers' = rest
               /\ roundSince' = NoTime
               /\ UNCHANGED <<voteVars, sessionPhase, lastRound>>
          [] OTHER ->
               \* 1 s after round 3 ended
               /\ sessionPhase' = "sections"
               /\ sent' = broadcastToRoom(ws, participants, "sections_phase", 0, 0, 0)
               /\ timers' = rest
               /\ UNCHANGED <<voteVars, votingRound, lastRound, roundSince>>
  /\ UNCHANGED <<cap, socketRoom, queuedRoom, multiRoom, connVars, sections, nextSec, contentVars, now>>

NextDue == IF BagToSet(timers) = {} THEN MaxTime
           ELSE LET D == {t.due : t \in BagToSet(timers)}
                IN CHOOSE d \in D : \A e \in D : d <= e

\* Time passes, by at most TimeStep and not past the next timer.
Advance ==
  /\ now < MaxTime
  /\ NextDue > now
  /\ now' = Min(Min(now + TimeStep, NextDue), MaxTime)
  /\ sent' = {}
  /\ UNCHANGED <<cap, socketRoom, queuedRoom, multiRoom, connVars, sections, nextSec, voteVars, phaseVars, contentVars,
                 timers>>

Timers == \E t \in BagToSet(timers) : TimerFire(t)

(***************************************************************************)
(* Part II.  The multi-room WebSocket server, src/unnamed/part_002.        *)
(*                                                                         *)
(* A 'join' handler suspends at "await handleJoin": its join operation is  *)
(* chained on the room's lock and runs in a later microtask, and the       *)
(* handler resumes in another one.  Socket events, timers and the other    *)
(* commands are tasks of the event loop, which start only when no          *)
(* microtask is left (Drained).  Further joins arrive while operations are *)
(* pending; the ws library delivers the messages of one chunk of one       *)
(* socket in a row, the model lets the joins of any socket arrive.         *)
(***************************************************************************)
RoomIds == 1..MaxRooms

\* data.roomId || 'default': the room of a join that names none (0)
DefaultRoom == 1
RequestedRoom(roomId) == IF roomId = 0 THEN DefaultRoom ELSE roomId

\* new Room(roomId)
NewRoom(t) ==
  [participants |-> EmptyFn, votes |-> EmptyFn, sections |-> <<>>, startTime |-> t,
   votingRound |-> 0, sessionPhase |-> "open"]

\* Room.getActiveCount()
Room_getActiveCount(w, room) ==
  Cardinality({p \in DOMAIN room.participants : IsOpen(w, room.participants[p].ws)})

\* Room.cleanupAndCount(): the room without the participants whose socket is
\* not OPEN (the count is getActiveCount of the result)
Room_cleanupAndCount(w, room) ==
  [room EXCEPT !.participants =
     Restrict(room.participants,
              {p \in DOMAIN room.participants : IsOpen(w, room.participants[p].ws)})]

\* Room.getAvailableNumber()
Room_getAvailableNumber(w, room) ==
  LET usedNumbers == {room.participants[p].number :
                        p \in {q \in DOMAIN room.participants :
                                 IsOpen(w, room.participants[q].ws)}}
      free == (1..MAX_PARTICIPANTS) \ usedNumbers
  IN IF free = {} THEN 0 ELSE CHOOSE i \in free : \A j \in free : i <= j

\* getOrCreateRoom(roomId)
getOrCreateRoom(rs, roomId, t) ==
  IF roomId \in DOMAIN rs THEN rs ELSE rs @@ (roomId :> NewRoom(t))

\* broadcastToRoom(roomId, message, excludeWs) of part_002
Rooms_broadcastToRoom(w, rs, roomId, t, a, b, excludeWs) ==
  IF roomId \notin DOMAIN rs THEN {}
  ELSE {Msg(rs[roomId].participants[p].ws, t, a, b) :
          p \in {q \in DOMAIN rs[roomId].participants :
                   /\ rs[roomId].participants[q].ws # excludeWs
                   /\ IsOpen(w, rs[roomId].participants[q].ws)}}

\* removeParticipant(roomId, participantId) of part_002: the new sockets and
\* rooms and the messages sent.
Rooms_removeParticipant(w, rs, roomId, participantId) ==
  IF roomId \notin DOMAIN rs \/ participantId \notin DOMAIN rs[roomId].participants
  THEN [conn |-> w, rooms |-> rs, out |-> {}]
  ELSE LET room == rs[roomId]
           c  == room.participants[participantId].ws
           w2 == WsClose(w, c)
           r2 == [rs EXCEPT ![roomId] =
                    [room EXCEPT
                       !.participants = Restrict(@, DOMAIN @ \ {participantId}),
                       !.votes = Restrict(@, DOMAIN @ \ {participantId}),
                       !.sections = StripMembers(@, {participantId})]]
       IN [conn |-> w2,
           rooms |-> r2,
           out |-> (IF IsOpen(w, c) THEN {Msg(c, "removed", 0, 0)} ELSE {})
                   \cup Rooms_broadcastToRoom(w2, r2, roomId, "participant_removed",
                          participantId, room.participants[participantId].number, 0)]

\* startVotingPhases(roomId) of part_002: the timers of the rounds whose
\* start, counted from the room's startTime, lies ahead.
Rooms_startVotingPhases(tm, rs, roomId, t) ==
  IF roomId \notin DOMAIN rs \/ rs[roomId].votingRound > 0 THEN tm
  ELSE LET elapsed == t - rs[roomId].startTime
       IN tm (+) SetToBag({[kind |-> "start", round |-> r, room |-> roomId,
                            due |-> t + (RoundStart(r) - elapsed)] :
                             r \in {q \in 1..3 : RoundStart(q) - elapsed > 0}})

\* The head of a lock whose promise is rejected: an operation threw, and
\* withJoinLock threw the error again out of the promise it stored as the
\* room's lock.  No socket has this handle.
Rejected == 0

\* No join operation is pending and no 'join' handler waits to resume: the
\* microtask queue is empty.
Drained ==
  /\ \A r \in DOMAIN roomJoinLocks : roomJoinLocks[r] \in {<<>>, <<Rejected>>}
  /\ joinResults = <<>>

\* The join operations that wait on some lock.
Pending ==
  LET F[S \in SUBSET DOMAIN roomJoinLocks] ==
        IF S = {} THEN 0
        ELSE LET r == CHOOSE x \in S : TRUE
             IN Len(SelectSeq(roomJoinLocks[r], LAMBDA c : c # Rejected)) + F[S \ {r}]
  IN F[DOMAIN roomJoinLocks]

RoomsCanReceive(c) == conn[c].status \in {"OPEN", "CLOSING_LOCAL"}

\* wss.on('connection') of part_002
RoomsConnect(limit) ==
  /\ Drained
  /\ \E c \in Conns :
       /\ c <= limit
       /\ conn[c].status = "NONE"
       /\ \A d \in Conns : d < c => conn[d].status # "NONE"
       /\ conn' = [conn EXCEPT ![c].status = "OPEN"]
  /\ sent' = {}
  /\ UNCHANGED <<cap, socketRoom, queuedRoom, singleRoom, rooms, roomJoinLocks, joinResults, nextId, clockVars>>

\* The peer closes or the network drops.
RoomsPeerClose(c) ==
  /\ Drained
  /\ conn[c].status = "OPEN"
  /\ conn' = [conn EXCEPT ![c].status = "CLOSING_REMOTE"]
  /\ sent' = {}
  /\ UNCHANGED <<cap, socketRoom, queuedRoom, singleRoom, rooms, roomJoinLocks, joinResults, nextId, clockVars>>

\* case 'join' of part_002 up to "await handleJoin": withJoinLock chains the
\* operation on the lock of the room, which it creates when there is none.
\* Of the command only type and roomId are read.
JoinRequest(c, roomId) ==
  /\ RoomsCanReceive(c)
  /\ Pending < MaxPending
  /\ nextId + Pending < MaxIds
  /\ sent' = {}
  /\ IF conn[c].participantId # NoId
     THEN \* Duplicate join attempt ignored
          UNCHANGED roomJoinLocks
     ELSE LET r == RequestedRoom(roomId)
              currentLock == IF r \in DOMAIN roomJoinLocks THEN roomJoinLocks[r] ELSE <<>>
          IN roomJoinLocks' =
               [x \in DOMAIN roomJoinLocks \cup {r} |->
                  IF x = r THEN Append(currentLock, c) ELSE roomJoinLocks[x]]
  /\ UNCHANGED <<cap, socketRoom, queuedRoom, singleRoom, conn, rooms, joinResults, nextId, clockVars>>

\* currentLock.then(...): the operation that runs next is the one chained
\* first.
NextOperation(lock) == 1

\* The lock without its k-th operation.
WithoutOperation(lock, k) == SubSeq(lock, 1, k - 1) \o SubSeq(lock, k + 1, Len(lock))

\* The operation of handleJoin, run by the lock of roomId.
JoinRun(roomId) ==
  /\ roomId \in DOMAIN roomJoinLocks
  /\ roomJoinLocks[roomId] # <<>>
  /\ Head(roomJoinLocks[roomId]) # Rejected
  /\ LET k  == NextOperation(roomJoinLocks[roomId])
         c  == roomJoinLocks[roomId][k]
         rs == getOrCreateRoom(rooms, roomId, now)
         room == Room_cleanupAndCount(conn, rs[roomId])
         activeCount == Room_getActiveCount(conn, room)
         participantNumber == Room_getAvailableNumber(conn, room)
         finalCount == Room_getActiveCount(conn, room)
         participantId == nextId + 1
         joined == [room EXCEPT !.participants =
                      @ @@ (participantId :> [number |-> participantNumber, ws |-> c])]
         verifyCount == Room_getActiveCount(conn, joined)
         r2 == [rs EXCEPT ![roomId] = joined]
     IN /\ roomJoinLocks' = [roomJoinLocks EXCEPT ![roomId] = WithoutOperation(@, k)]
        /\ IF \/ activeCount >= MAX_PARTICIPANTS
              \/ participantNumber = 0
              \/ finalCount >= MAX_PARTICIPANTS
              \/ verifyCount > MAX_PARTICIPANTS
           THEN \* Room is full: an OPEN socket gets the error and is closed
                /\ rooms' = [rs EXCEPT ![roomId] = room]
                /\ sent' = (IF IsOpen(conn, c) THEN {Msg(c, "error", 1, 0)} ELSE {})
                /\ conn' = WsClose(conn, c)
                /\ UNCHANGED <<joinResults, nextId, timers>>
           ELSE /\ rooms' = r2
                /\ nextId' = nextId + 1
                /\ joinResults' = Append(joinResults,
                      [ws |-> c, roomId |-> roomId, participantId |-> participantId,
                       participantNumber |-> participantNumber])
                /\ IF IsOpen(conn, c)
                   THEN /\ sent' = {Msg(c, "joined", participantId, participantNumber)}
                                   \cup Rooms_broadcastToRoom(conn, r2, roomId,
                                          "participant_joined", participantId,
                                          participantNumber, c)
                        /\ timers' = Rooms_startVotingPhases(timers, r2, roomId, now)
                   ELSE /\ sent' = {}
                        /\ UNCHANGED timers
                /\ UNCHANGED conn
  /\ UNCHANGED <<cap, socketRoom, queuedRoom, singleRoom, now>>

\* The operation of handleJoin throws: the model lets the ws.send of the
\* 'joined' reply (line 213) fail, after the record was inserted.  The catch
\* of withJoinLock logs the error and throws it again, so the promise stored
\* as the room's lock is rejected; the 'join' handler catches the error of
\* "await handleJoin" and logs it.
JoinThrow(roomId) ==
  /\ roomId \in DOMAIN roomJoinLocks
  /\ roomJoinLocks[roomId] # <<>>
  /\ Head(roomJoinLocks[roomId]) # Rejected
  /\ LET c  == Head(roomJoinLocks[roomId])
         rs == getOrCreateRoom(rooms, roomId, now)
         room == Room_cleanupAndCount(conn, rs[roomId])
         participantNumber == Room_getAvailableNumber(conn, room)
         participantId == nextId + 1
         joined == [room EXCEPT !.participants =
                      @ @@ (participantId :> [number |-> participantNumber, ws |-> c])]
     IN /\ IsOpen(conn, c)
        /\ Room_getActiveCount(conn, room) < MAX_PARTICIPANTS
        /\ participantNumber # 0
        /\ rooms' = [rs EXCEPT ![roomId] = joined]
        /\ nextId' = nextId + 1
        /\ roomJoinLocks' = [roomJoinLocks EXCEPT ![roomId] = <<Rejected>> \o Tail(@)]
        /\ sent' = {}
        /\ UNCHANGED <<conn, joinResults, timers>>
  /\ UNCHANGED <<cap, socketRoom, queuedRoom, singleRoom, now>>

\* currentLock.then(...) on a rejected lock: the promise has no rejection
\* handler, so the operation chained on it is never called and its promise
\* is rejected in turn; the 'join' handler catches the error of
\* "await handleJoin" and logs it.  The socket gets no reply.
JoinSkip(roomId) ==
  /\ roomId \in DOMAIN roomJoinLocks
  /\ Len(roomJoinLocks[roomId]) > 1
  /\ Head(roomJoinLocks[roomId]) = Rejected
  /\ roomJoinLocks' = [roomJoinLocks EXCEPT ![roomId] = <<Rejected>> \o Tail(Tail(@))]
  /\ sent' = {}
  /\ UNCHANGED <<cap, socketRoom, queuedRoom, singleRoom, conn, rooms, joinResults, nextId, clockVars>>

\* withJoinLock(roomId, operation): it awaits the lock and ends without a
\* return statement, so the promise it returns resolves to undefined
\* whatever the operation returned.
withJoinLock(result) == Undefined

\* case 'join' of part_002 after "await handleJoin": handleJoin returns what
\* withJoinLock returned, and the closure takes the room, the id and the
\* number of a result that is not undefined.
JoinResume ==
  /\ joinResults # <<>>
  /\ LET joinResult == withJoinLock(Head(joinResults))
     IN IF joinResult # Undefined
        THEN conn' = [conn EXCEPT
                        ![joinResult.ws].roomId = joinResult.roomId,
                        ![joinResult.ws].participantId = joinResult.participantId,
                        ![joinResult.ws].participantNumber = joinResult.participantNumber]
        ELSE UNCHANGED conn
  /\ joinResults' = Tail(joinResults)
  /\ sent' = {}
  /\ UNCHANGED <<cap, socketRoom, queuedRoom, singleRoom, rooms, roomJoinLocks, nextId, clockVars>>

\* ws.on('close') of part_002
RoomsOnClose(c) ==
  /\ Drained
  /\ conn[c].status \in {"CLOSING_LOCAL", "CLOSING_REMOTE"}
  /\ LET roomId == conn[c].roomId
         participantId == conn[c].participantId
         w2 == [conn EXCEPT ![c].status = "CLOSED"]
     IN /\ conn' = w2
        /\ IF /\ roomId # 0 /\ participantId # NoId
              /\ roomId \in DOMAIN rooms
              /\ participantId \in DOMAIN rooms[roomId].participants
           THEN LET room == rooms[roomId]
                    r2 == [rooms EXCEPT ![roomId] =
                             [room EXCEPT
                                !.participants = Restrict(@, DOMAIN @ \ {participantId}),
                                !.sections = StripMembers(@, {participantId})]]
                    teardown == [kind |-> "teardown", round |-> 0, room |-> roomId,
                                 due |-> now + TeardownDelay]
                IN /\ rooms' = r2
                   /\ sent' = Rooms_broadcastToRoom(w2, r2, roomId, "participant_left",
                                participantId, room.participants[participantId].number, c)
                   /\ IF Room_getActiveCount(w2, r2[roomId]) = 0
                      THEN \* beyond MaxRequests pending copies, the timer merges
                           \* with the ones that run the same callback at the
                           \* same time
                           timers' = IF CopiesIn(teardown, timers) < MaxRequests
                                     THEN timers (+) SetToBag({teardown})
                                     ELSE timers
                      ELSE UNCHANGED timers
           ELSE /\ sent' = {}
                /\ UNCHANGED <<rooms, timers>>
  /\ UNCHANGED <<cap, socketRoom, queuedRoom, singleRoom, roomJoinLocks, joinResults, nextId, now>>

\* rooms.get(roomId).getActiveCount() === 0, in the teardown callback
StillEmpty(w, room) == Room_getActiveCount(w, room) = 0

\* case 'vote_remove' of part_002
RoomsVoteRemove(c, targetId) ==
  /\ Drained
  /\ RoomsCanReceive(c)
  /\ LET roomId == conn[c].roomId
     IN IF /\ roomId # 0 /\ conn[c].participantId # NoId
           /\ roomId \in DOMAIN rooms
           /\ rooms[roomId].votingRound > 0
        THEN LET v2 == CountVote(rooms[roomId].votes, conn[c].participantId, targetId)
                 n  == v2[targetId]
                 r2 == [rooms EXCEPT ![roomId].votes = v2]
                 up == Rooms_broadcastToRoom(conn, r2, roomId, "vote_update", targetId, n, 0)
                 rm == Rooms_removeParticipant(conn, r2, roomId, targetId)
             IN /\ n <= MaxTally
                /\ IF ReachedThreshold(n)
                   THEN /\ conn' = rm.conn
                        /\ rooms' = rm.rooms
                        /\ sent' = up \cup rm.out
                   ELSE /\ rooms' = r2
                        /\ sent' = up
                        /\ UNCHANGED conn
        ELSE /\ sent' = {}
             /\ UNCHANGED <<conn, rooms>>
  /\ UNCHANGED <<cap, socketRoom, queuedRoom, singleRoom, roomJoinLocks, joinResults, nextId, clockVars>>

\* case 'request_voting' of part_002
RoomsRequestVoting(c, round) ==
  /\ Drained
  /\ RoomsCanReceive(c)
  /\ LET roomId == conn[c].roomId
         endReq == [kind |-> "endReq", round |-> 0, room |-> roomId,
                    due |-> now + RoundDelay]
     IN IF roomId # 0 /\ conn[c].participantId # NoId /\ roomId \in DOMAIN rooms
        THEN /\ CopiesIn(endReq, timers) < MaxRequests
             /\ rooms' = [rooms EXCEPT ![roomId].votingRound = RequestedRound(round),
                                       ![roomId].votes = EmptyFn]
             /\ sent' = Rooms_broadcastToRoom(conn, rooms, roomId, "voting_started",
                                              RequestedRound(round), 0, 0)
             /\ timers' = timers (+) SetToBag({endReq})
        ELSE /\ sent' = {}
             /\ UNCHANGED <<rooms, timers>>
  /\ UNCHANGED <<cap, socketRoom, queuedRoom, singleRoom, conn, roomJoinLocks, joinResults, nextId, now>>

\* A setTimeout callback of part_002 runs once its time has come; each one
\* looks its room up again.
RoomsTimerFire(t) ==
  /\ Drained
  /\ BagIn(t, timers)
  /\ t.due <= now
  /\ LET rest == timers (-) SetToBag({t})
         roomId == t.room
     IN IF roomId \notin DOMAIN rooms
        THEN /\ timers' = rest
             /\ sent' = {}
             /\ UNCHANGED <<rooms, roomJoinLocks>>
        ELSE CASE t.kind = "start" ->
                    /\ rooms' = [rooms EXCEPT ![roomId].votingRound = t.round,
                                              ![roomId].votes = EmptyFn]
                    /\ sent' = Rooms_broadcastToRoom(conn, rooms, roomId, "voting_started",
                                                     t.round, 0, 0)
                    /\ timers' = rest (+) SetToBag({[kind |-> "end", round |-> t.round,
                                                     room |-> roomId,
                                                     due |-> now + RoundDelay]})
                    /\ UNCHANGED roomJoinLocks
               [] t.kind = "end" ->
                    /\ rooms' = [rooms EXCEPT ![roomId].votingRound = 0]
                    /\ sent' = Rooms_broadcastToRoom(conn, rooms, roomId, "voting_ended",
                                                     0, 0, 0)
                    /\ timers' = (IF t.round = 3
                                  THEN rest (+) SetToBag({[kind |-> "sections", round |-> 0,
                                                           room |-> roomId,
                                                           due |-> now + SettleDelay]})
                                  ELSE rest)
                    /\ UNCHANGED roomJoinLocks
               [] t.kind = "endReq" ->
                    /\ rooms' = [rooms EXCEPT ![roomId].votingRound = 0]
                    /\ sent' = Rooms_broadcastToRoom(conn, rooms, roomId, "voting_ended",
                                                     0, 0, 0)
                    /\ timers' = rest
                    /\ UNCHANGED roomJoinLocks
               [] t.kind = "sections" ->
                    /\ rooms' = [rooms EXCEPT ![roomId].sessionPhase = "sections"]
                    /\ sent' = Rooms_broadcastToRoom(conn, rooms, roomId, "sections_phase",
                                                     0, 0, 0)
                    /\ timers' = rest
                    /\ UNCHANGED roomJoinLocks
               [] OTHER ->
                    \* Clean up empty rooms after 5 minutes
                    /\ timers' = rest
                    /\ sent' = {}
                    /\ IF StillEmpty(conn, rooms[roomId])
                       THEN /\ rooms' = Restrict(rooms, DOMAIN rooms \ {roomId})
                            /\ roomJoinLocks' = Restrict(roomJoinLocks,
                                                         DOMAIN roomJoinLocks \ {roomId})
                       ELSE UNCHANGED <<rooms, roomJoinLocks>>
  /\ UNCHANGED <<cap, socketRoom, queuedRoom, singleRoom, conn, joinResults, nextId, now>>

RoomsTimers == \E t \in BagToSet(timers) : RoomsTimerFire(t)

(***************************************************************************)
(* Part III.  The single-room server with a waiting queue,                 *)
(* src/server.js lines 456-967.                                            *)
(*                                                                         *)
(* Its handlers are synchronous.  A section is a list of participant ids   *)
(* that grows by accept_section_invitation and is never stripped.  The     *)
(* rounds are started by an interval of 10 s whose callback compares the   *)
(* minute of the session with 20, 40 and 60: the model runs the callback   *)
(* at the first tick of every TimeStep, the ticks in between change        *)
(* nothing.  The commands modelled are those of admission and of sections. *)
(***************************************************************************)
QueuedCanReceive(c) == qconn[c].status \in {"OPEN", "CLOSING_LOCAL"}

\* ws.send(JSON.stringify(...)) to socket c, which delivers on an OPEN socket
SendTo(q, c, t, a, b) == IF IsOpen(q, c) THEN {Msg(c, t, a, b)} ELSE {}

\* broadcast(message)
broadcast(q, parts, t, a, b) ==
  {Msg(parts[p].ws, t, a, b) : p \in {x \in DOMAIN parts : IsOpen(q, parts[x].ws)}}

\* broadcastToOthers(excludeId, message)
broadcastToOthers(q, parts, excludeId, t, a, b) ==
  broadcast(q, Restrict(parts, DOMAIN parts \ {excludeId}), t, a, b)

\* wss.on('connection') of the queued server
QueuedConnect(limit) ==
  /\ \E c \in Conns :
       /\ c <= limit
       /\ qconn[c].status = "NONE"
       /\ \A d \in Conns : d < c => qconn[d].status # "NONE"
       /\ qconn' = [qconn EXCEPT ![c].status = "OPEN"]
  /\ sent' = {}
  /\ UNCHANGED <<cap, socketRoom, singleRoom, multiRoom, qroom, clockVars>>

\* The peer closes or the network drops.
QueuedPeerClose(c) ==
  /\ qconn[c].status = "OPEN"
  /\ qconn' = [qconn EXCEPT ![c].status = "CLOSING_REMOTE"]
  /\ sent' = {}
  /\ UNCHANGED <<cap, socketRoom, singleRoom, multiRoom, qroom, clockVars>>

\* room.participants.size >= MAX_PARTICIPANTS
WaitingRoomIsFull(parts) == Cardinality(DOMAIN parts) >= MAX_PARTICIPANTS

\* room.availableNumbers.sort(...); room.availableNumbers.shift()
LowestNumber(numbers) == CHOOSE n \in numbers : \A m \in numbers : n <= m

\* case 'join' of the queued server: handleJoin(ws, data).  A socket that has
\* joined can join again, and is then given another id and number.
QueuedJoin(c) ==
  /\ QueuedCanReceive(c)
  /\ qroom.issued < QueuedMaxIds
  /\ Len(qroom.waitingQueue) < MaxPending
  /\ IF WaitingRoomIsFull(qroom.participants)
     THEN /\ qroom' = [qroom EXCEPT !.waitingQueue = Append(@, c)]
          /\ sent' = SendTo(qconn, c, "waiting", Len(qroom.waitingQueue) + 1, 0)
          /\ UNCHANGED qconn
     ELSE IF qroom.availableNumbers = {}
     THEN /\ sent' = SendTo(qconn, c, "error", 1, 0)
          /\ qconn' = WsClose(qconn, c)
          /\ UNCHANGED qroom
     ELSE LET assignedNumber == LowestNumber(qroom.availableNumbers)
              participantId == qroom.issued + 1
              p2 == qroom.participants @@
                      (participantId :> [ws |-> c, number |-> assignedNumber])
          IN /\ qroom' = [qroom EXCEPT !.availableNumbers = @ \ {assignedNumber},
                                       !.issued = participantId,
                                       !.participants = p2]
             /\ qconn' = [qconn EXCEPT ![c].participantId = participantId,
                                       ![c].assignedNumber = assignedNumber]
             /\ sent' = SendTo(qconn, c, "joined", participantId, assignedNumber)
                        \cup broadcastToOthers(qconn, p2, participantId, "participant_joined",
                                               participantId, assignedNumber)
  /\ UNCHANGED <<cap, socketRoom, singleRoom, multiRoom, clockVars>>

\* ws.on('close') of the queued server, with handleDisconnect
QueuedOnClose(c) ==
  /\ qconn[c].status \in {"CLOSING_LOCAL", "CLOSING_REMOTE"}
  /\ LET participantId == qconn[c].participantId
         q2 == [qconn EXCEPT ![c].status = "CLOSED"]
     IN /\ qconn' = q2
        /\ IF participantId # NoId
           THEN IF participantId \in DOMAIN qroom.participants
                THEN LET number == qroom.participants[participantId].number
                         p2 == Restrict(qroom.participants,
                                        DOMAIN qroom.participants \ {participantId})
                     IN /\ qroom' = [qroom EXCEPT
                                       !.availableNumbers = @ \cup {number},
                                       !.participants = p2,
                                       !.waitingQueue = IF @ = <<>> THEN @ ELSE Tail(@)]
                        /\ sent' = broadcast(q2, p2, "participant_left", participantId, number)
                                   \cup (IF qroom.waitingQueue = <<>> THEN {}
                                         ELSE SendTo(q2, Head(qroom.waitingQueue),
                                                     "spot_available", 0, 0))
                ELSE sent' = {} /\ UNCHANGED qroom
           ELSE /\ qroom' = [qroom EXCEPT
                               !.waitingQueue = SelectSeq(@, LAMBDA w : w # c)]
                /\ sent' = {}
  /\ UNCHANGED <<cap, socketRoom, singleRoom, multiRoom, clockVars>>

\* removeParticipant(participantId) of the queued server, applied to the
\* sockets q and the room r: the socket is closed, the number goes back to
\* the pool, the others are told.
Queued_removeParticipant(q, r, participantId) ==
  IF participantId \notin DOMAIN r.participants
  THEN [conn |-> q, room |-> r, out |-> {}]
  ELSE LET participant == r.participants[participantId]
           q2 == WsClose(q, participant.ws)
           p2 == Restrict(r.participants, DOMAIN r.participants \ {participantId})
       IN [conn |-> q2,
           room |-> [r EXCEPT !.availableNumbers = @ \cup {participant.number},
                              !.participants = p2],
           out |-> broadcast(q2, p2, "participant_removed", participantId,
                             participant.number)]

\* case 'vote_remove' of the queued server: handleVote(participantId, data).
\* The voter is whatever the closure holds, the id of no participant included.
handleVote(c, targetId) ==
  /\ QueuedCanReceive(c)
  /\ IF qroom.sessionPhase # "voting" \/ targetId \notin DOMAIN qroom.participants
     THEN sent' = {} /\ UNCHANGED <<qconn, qroom>>
     ELSE LET participantId == qconn[c].participantId
              voterIds == (IF targetId \in DOMAIN qroom.votes
                           THEN qroom.votes[targetId] ELSE {}) \cup {participantId}
              v2 == [x \in DOMAIN qroom.votes \cup {targetId} |->
                       IF x = targetId THEN voterIds ELSE qroom.votes[x]]
              voteCount == Cardinality(voterIds)
              r2 == [qroom EXCEPT !.votes = v2]
              update == broadcast(qconn, qroom.participants, "vote_update", targetId,
                                  voteCount)
          IN IF voteCount >= VoteThreshold
             THEN LET rm == Queued_removeParticipant(qconn, r2, targetId)
                  IN /\ qconn' = rm.conn
                     /\ qroom' = rm.room
                     /\ sent' = update \cup rm.out
             ELSE /\ qroom' = r2
                  /\ sent' = update
                  /\ UNCHANGED qconn
  /\ UNCHANGED <<cap, socketRoom, singleRoom, multiRoom, clockVars>>

\* handleCreateSection(participantId, data): the section lists its creator
\* alone, whatever the command names.
handleCreateSection(c) ==
  /\ QueuedCanReceive(c)
  /\ Len(qroom.sections) < MaxSections
  /\ IF qroom.sessionPhase # "sections"
     THEN sent' = {} /\ UNCHANGED qroom
     ELSE LET section == [id |-> Len(qroom.sections) + 1,
                          members |-> <<qconn[c].participantId>>]
          IN /\ qroom' = [qroom EXCEPT !.sections = Append(@, section)]
             /\ sent' = broadcast(qconn, qroom.participants, "section_created", section.id, 0)
  /\ UNCHANGED <<cap, socketRoom, singleRoom, multiRoom, qconn, clockVars>>

\* handleSectionInvite(participantId, data)
handleSectionInvite(c, targetId, sectionId) ==
  /\ QueuedCanReceive(c)
  /\ sent' = IF /\ qroom.sessionPhase = "sections"
                /\ targetId \in DOMAIN qroom.participants
                /\ qconn[c].participantId \in DOMAIN qroom.participants
             THEN SendTo(qconn, qroom.participants[targetId].ws, "section_invitation",
                         sectionId, qconn[c].participantId)
             ELSE {}
  /\ UNCHANGED <<cap, socketRoom, singleRoom, multiRoom, queuedRoom, clockVars>>

\* if (section.members.length >= 3) return; // Max 3 members
SectionIsFull(members) == Len(members) >= SectionCap

\* handleAcceptSectionInvite(participantId, data)
handleAcceptSectionInvite(c, sectionId) ==
  /\ QueuedCanReceive(c)
  /\ IF sectionId \notin 1..Len(qroom.sections)
     THEN sent' = {} /\ UNCHANGED qroom
     ELSE IF SectionIsFull(qroom.sections[sectionId].members)
     THEN sent' = {} /\ UNCHANGED qroom
     ELSE /\ qroom' = [qroom EXCEPT !.sections[sectionId].members =
                                       Append(@, qconn[c].participantId)]
          /\ sent' = broadcast(qconn, qroom.participants, "section_joined", sectionId,
                               qconn[c].participantId)
  /\ UNCHANGED <<cap, socketRoom, singleRoom, multiRoom, qconn, clockVars>>

\* The round the callback of the interval starts, 0 when it starts none.
RoundToStart(minutes, round) ==
  IF minutes = RoundMinutes /\ round = 0 THEN 1
  ELSE IF minutes = 2 * RoundMinutes /\ round = 1 THEN 2
  ELSE IF minutes = 3 * RoundMinutes /\ round = 2 THEN 3
  ELSE 0

\* The callback of setInterval(..., 10000) at the first tick of the next
\* TimeStep, with startVotingRound(round): the timeouts that are due before
\* have run.
QueuedInterval ==
  /\ LET tick == ((now \div TimeStep) + 1) * TimeStep
         minutes == tick \div MsPerMinute
         round == RoundToStart(minutes, qroom.votingRound)
     IN /\ tick <= MaxTime
        /\ \A t \in BagToSet(timers) : t.due >= tick
        /\ now' = tick
        /\ IF round = 0
           THEN sent' = {} /\ UNCHANGED <<qroom, timers>>
           ELSE /\ qroom' = [qroom EXCEPT !.sessionPhase = "voting", !.votingRound = round,
                                         !.votes = EmptyFn]
                /\ sent' = broadcast(qconn, qroom.participants, "voting_started", round, 0)
                /\ timers' = timers
                     (+) SetToBag({[kind |-> "end", round |-> round, due |-> tick + RoundDelay]})
                     (+) (IF round = 3
                          THEN SetToBag({[kind |-> "sections", round |-> 0,
                                          due |-> tick + RoundDelay]})
                          ELSE EmptyBag)
  /\ UNCHANGED <<cap, socketRoom, singleRoom, multiRoom, qconn>>

\* A setTimeout callback of the queued server runs when its time has come:
\* the end of a round, or enterSectionsPhase().  Timeouts of one delay run in
\* the order they were set, the end of round 3 before enterSectionsPhase.
QueuedTimeout(t) ==
  /\ BagIn(t, timers)
  /\ t.due = NextDue
  /\ t.kind = "sections" => \A u \in BagToSet(timers) : u.kind = "end" => u.due > t.due
  /\ now' = IF now < t.due THEN t.due ELSE now
  /\ timers' = timers (-) SetToBag({t})
  /\ IF t.kind = "end"
     THEN /\ qroom' = [qroom EXCEPT !.sessionPhase = "open"]
          /\ sent' = broadcast(qconn, qroom.participants, "voting_ended", t.round, 0)
     ELSE /\ qroom' = [qroom EXCEPT !.sessionPhase = "sections"]
          /\ sent' = broadcast(qconn, qroom.participants, "sections_phase", 0, 0)
  /\ UNCHANGED <<cap, socketRoom, singleRoom, multiRoom, qconn>>

QueuedTimeouts == \E t \in BagToSet(timers) : QueuedTimeout(t)

(***************************************************************************)
(* Part IV.  The Socket.io server, src/server.js 1-455.                    *)
(*                                                                         *)
(* One Room object, keyed by socket id.  A socket is connected from the    *)
(* 'connection' event to its 'disconnect' event; a participant voted out   *)
(* is told so but its socket stays connected.  Date.now() is read for      *)
(* identifiers and for startTime only, so startTime is kept as "is set".   *)
(* The canvas is not part of this model.                                   *)
(***************************************************************************)

\* The 20 of "new Set([...Array(20).keys()].map(i => i + 1))" and of
\* "this.participants.size >= 20", scaled to the capacity of the specification.
PoolSize == cap

\* new Set([...Array(20).keys()].map(i => i + 1)), in insertion order
FullPool(k) == [i \in 1..k |-> i]

\* socket.emit(...) and io.to(socketId).emit(...)
IoEmit(s, c, t, a, b) == IF s[c] = "connected" THEN {Msg(c, t, a, b)} ELSE {}

\* io.emit(...)
IoEmitAll(s, t, a, b) == {Msg(c, t, a, b) : c \in {d \in Conns : s[d] = "connected"}}

\* socket.broadcast.emit(...)
IoBroadcast(s, c, t, a, b) == {msg \in IoEmitAll(s, t, a, b) : msg.to # c}

\* io.on('connection')
IoConnect(limit) ==
  /\ \E c \in Conns :
       /\ c <= limit
       /\ iosock[c] = "NONE"
       /\ \A d \in Conns : d < c => iosock[d] # "NONE"
       /\ iosock' = [iosock EXCEPT ![c] = "connected"]
  /\ sent' = {}
  /\ UNCHANGED <<cap, singleRoom, multiRoom, queuedRoom, ioroom, ioballots, clockVars>>

\* The tests of Room.addParticipant that return null.
AddRefused(r, ageVerified) ==
  \/ ~ageVerified
  \/ Cardinality(DOMAIN r.participants) >= PoolSize
  \/ r.roomActive /\ r.startTime /\ r.votingRounds > 0

\* availableNumbers.size > 0 ? Array.from(availableNumbers)[0] : nextNumber++
DrawNumber(r) ==
  IF Len(r.availableNumbers) > 0 THEN r.availableNumbers[1] ELSE r.nextNumber

\* The setTimeout calls of Room.startRoom.
StartRoomTimers ==
  SetToBag({[kind |-> "startVotingRound", round |-> round,
             due |-> now + round * RoundMinutes * MsPerMinute] : round \in 1..3}
           \cup {[kind |-> "closeRoom", round |-> 0, due |-> now + RoomLife]})

\* socket.on('join') with Room.addParticipant and Room.startRoom.  The record
\* is set under the socket id, whether the socket had one or not.
IoJoin(c, ageVerified) ==
  /\ iosock[c] = "connected"
  /\ IF AddRefused(ioroom, ageVerified)
     THEN /\ sent' = IoEmit(iosock, c, "joinFailed", IF ageVerified THEN 1 ELSE 0, 0)
          /\ UNCHANGED <<ioroom, timers>>
     ELSE LET number == DrawNumber(ioroom)
              drawn == Len(ioroom.availableNumbers) > 0
              participant == [number |-> number, inPrivateSection |-> 0]
              p2 == [x \in DOMAIN ioroom.participants \cup {c} |->
                       IF x = c THEN participant ELSE ioroom.participants[x]]
              start == ~ioroom.roomActive /\ Cardinality(DOMAIN p2) = 1
          IN /\ ioroom' = [ioroom EXCEPT
                             !.participants = p2,
                             !.availableNumbers = SelectSeq(@, LAMBDA n : n # number),
                             !.nextNumber = IF drawn THEN @ ELSE @ + 1,
                             !.roomActive = @ \/ start,
                             !.startTime = @ \/ start]
             /\ timers' = IF start THEN timers (+) StartRoomTimers ELSE timers
             /\ sent' = IoEmit(iosock, c, "joined", number, 0)
                        \cup IoBroadcast(iosock, c, "participantJoined", number, 0)
  /\ UNCHANGED <<cap, singleRoom, multiRoom, queuedRoom, iosock, ioballots, now>>

\* Room.leavePrivateSection
leavePrivateSection(r, socketId, sectionId) ==
  IF sectionId \notin DOMAIN r.privateSections THEN r
  ELSE LET members == r.privateSections[sectionId].members \ {socketId}
           p2 == IF socketId \in DOMAIN r.participants
                 THEN [r.participants EXCEPT ![socketId].inPrivateSection = 0]
                 ELSE r.participants
           s2 == IF members = {}
                 THEN Restrict(r.privateSections, DOMAIN r.privateSections \ {sectionId})
                 ELSE [r.privateSections EXCEPT ![sectionId].members = members]
       IN [r EXCEPT !.participants = p2, !.privateSections = s2]

\* Set.add: a number the pool holds keeps its place.
PoolAdd(numbers, n) ==
  IF \E i \in 1..Len(numbers) : numbers[i] = n THEN numbers ELSE Append(numbers, n)

\* Room.removeParticipant
IoRemoveParticipant(r, socketId) ==
  IF socketId \notin DOMAIN r.participants THEN r
  ELSE LET participant == r.participants[socketId]
           r1 == IF participant.inPrivateSection # 0
                 THEN leavePrivateSection(r, socketId, participant.inPrivateSection)
                 ELSE r
       IN [r1 EXCEPT !.availableNumbers = PoolAdd(@, participant.number),
                     !.participants = Restrict(@, DOMAIN @ \ {socketId}),
                     !.votes = Restrict(@, DOMAIN @ \ {socketId})]

\* socket.on('disconnect')
IoDisconnect(c) ==
  /\ iosock[c] = "connected"
  /\ iosock' = [iosock EXCEPT ![c] = "disconnected"]
  /\ ioroom' = IoRemoveParticipant(ioroom, c)
  /\ sent' = IF c \in DOMAIN ioroom.participants
             THEN IoBroadcast(iosock', c, "participantLeft", ioroom.participants[c].number, 0)
             ELSE {}
  /\ UNCHANGED <<cap, singleRoom, multiRoom, queuedRoom, ioballots, clockVars>>

\* Room.submitVote: the sockets that hold a voted number, the voter excepted
VotedSocketIds(r, voterId, votedNumbers) ==
  {socketId \in DOMAIN r.participants :
     /\ \E i \in 1..Len(votedNumbers) : votedNumbers[i] = r.participants[socketId].number
     /\ socketId # voterId}

\* The participants whose number a ballot names.
NamedBy(r, votedNumbers) ==
  {socketId \in DOMAIN r.participants :
     \E i \in 1..Len(votedNumbers) : votedNumbers[i] = r.participants[socketId].number}

\* socket.on('vote') with Room.submitVote
IoVote(c, votedNumbers) ==
  /\ iosock[c] = "connected"
  /\ LET success == ioroom.votingPhase /\ c \in DOMAIN ioroom.participants
     IN /\ ioroom' = IF success
                     THEN [ioroom EXCEPT !.votes =
                             [x \in DOMAIN @ \cup {c} |->
                                IF x = c THEN VotedSocketIds(ioroom, c, votedNumbers)
                                ELSE @[x]]]
                     ELSE ioroom
        /\ ioballots' = IF success
                        THEN [x \in DOMAIN ioballots \cup {c} |->
                                IF x = c THEN NamedBy(ioroom, votedNumbers)
                                ELSE ioballots[x]]
                        ELSE ioballots
        /\ sent' = IoEmit(iosock, c, "voteSubmitted", IF success THEN 1 ELSE 0, 0)
  /\ UNCHANGED <<cap, singleRoom, multiRoom, queuedRoom, iosock, clockVars>>

\* The invitees Room.createPrivateSection finds.
Invitees(r, creatorId, inviteeNumbers) ==
  {socketId \in DOMAIN r.participants :
     /\ \E i \in 1..Len(inviteeNumbers) :
          inviteeNumbers[i] = r.participants[socketId].number
     /\ r.participants[socketId].inPrivateSection = 0
     /\ socketId # creatorId}

\* The tests of Room.createPrivateSection that return null.
SectionRefused(r, creatorId, inviteeNumbers) ==
  \/ creatorId \notin DOMAIN r.participants
  \/ r.participants[creatorId].inPrivateSection # 0
  \/ Len(inviteeNumbers) > MaxInviteeNumbers
  \/ Cardinality(Invitees(r, creatorId, inviteeNumbers)) # Len(inviteeNumbers)

\* socket.on('createPrivateSection') with Room.createPrivateSection
IoCreatePrivateSection(c, inviteeNumbers) ==
  /\ iosock[c] = "connected"
  /\ IF SectionRefused(ioroom, c, inviteeNumbers)
     THEN /\ sent' = IoEmit(iosock, c, "createPrivateSection_callback", 0, 0)
          /\ UNCHANGED ioroom
     ELSE LET sectionId == ioroom.nextSection
              members == {c} \cup Invitees(ioroom, c, inviteeNumbers)
          IN /\ ioroom' = [ioroom EXCEPT
                             !.privateSections =
                                @ @@ (sectionId :> [members |-> members, locked |-> TRUE]),
                             !.participants =
                                [x \in DOMAIN @ |->
                                   IF x \in members
                                   THEN [@[x] EXCEPT !.inPrivateSection = sectionId]
                                   ELSE @[x]],
                             !.nextSection = @ + 1]
             /\ sent' = UNION {IoEmit(iosock, memberId, "privateSectionCreated",
                                      sectionId, Cardinality(members)) :
                                 memberId \in members}
                        \cup IoEmit(iosock, c, "createPrivateSection_callback", 1, sectionId)
  /\ UNCHANGED <<cap, singleRoom, multiRoom, queuedRoom, iosock, ioballots, clockVars>>

\* Room.endVotingRound: the votes a socket got
VoteCount(r, socketId) == Cardinality({voterId \in DOMAIN r.votes : socketId \in r.votes[voterId]})

\* A removal that is content with three votes.
RemovedByVote_three(r) ==
  {socketId \in DOMAIN r.participants : VoteCount(r, socketId) >= VoteThreshold - 1}

\* The participants Room.endVotingRound removes.
RemovedByVote(r) ==
  {socketId \in DOMAIN r.participants : VoteCount(r, socketId) >= VoteThreshold}

\* Room.removeParticipant for each of them, one after the other.
RECURSIVE RemoveAll(_, _)
RemoveAll(r, socketIds) ==
  IF socketIds = {} THEN r
  ELSE LET socketId == CHOOSE x \in socketIds : \A y \in socketIds : x <= y
       IN RemoveAll(IoRemoveParticipant(r, socketId), socketIds \ {socketId})

\* The callbacks of setTimeout: Room.startVotingRound, Room.endVotingRound,
\* Room.closeRoom and the reset it schedules.
IoTimerFire(t) ==
  /\ t.due <= now
  /\ ioballots' = IF t.kind \in {"startVotingRound", "endVotingRound"}
                  THEN EmptyFn ELSE ioballots
  /\ LET rest == timers (-) SetToBag({t})
     IN CASE t.kind = "startVotingRound" ->
               /\ ioroom' = [ioroom EXCEPT !.votingRounds = t.round,
                                           !.votingPhase = TRUE,
                                           !.votes = EmptyFn]
               /\ sent' = IoEmitAll(iosock, "votingStarted", t.round, 0)
               /\ timers' = rest (+) SetToBag({[kind |-> "endVotingRound", round |-> 0,
                                                due |-> now + VotingTime]})
          [] t.kind = "endVotingRound" ->
               LET removed == RemovedByVote(ioroom)
               IN /\ ioroom' = [RemoveAll(ioroom, removed) EXCEPT !.votingPhase = FALSE]
                  /\ sent' = UNION {IoEmit(iosock, socketId, "removed", 0, 0) :
                                      socketId \in removed}
                             \cup IoEmitAll(iosock, "votingEnded", ioroom.votingRounds,
                                            Cardinality(removed))
                             \cup (IF ioroom.votingRounds = 3
                                   THEN IoEmitAll(iosock, "votingComplete",
                                          Cardinality(DOMAIN ioroom'.participants), 0)
                                   ELSE {})
                  /\ timers' = rest
          [] t.kind = "closeRoom" ->
               /\ ioroom' = [ioroom EXCEPT !.roomActive = FALSE]
               /\ sent' = IoEmitAll(iosock, "roomClosed", 0, 0)
               /\ timers' = rest (+) SetToBag({[kind |-> "clearRoom", round |-> 0,
                                                due |-> now + ClearDelay]})
          [] t.kind = "clearRoom" ->
               /\ ioroom' = [ioroom EXCEPT !.participants = EmptyFn,
                                           !.privateSections = EmptyFn,
                                           !.votingRounds = 0,
                                           !.votingPhase = FALSE,
                                           !.votes = EmptyFn,
                                           !.startTime = FALSE,
                                           !.availableNumbers = FullPool(PoolSize),
                                           !.nextNumber = 1]
               /\ sent' = {}
               /\ timers' = rest
  /\ UNCHANGED <<cap, singleRoom, multiRoom, queuedRoom, iosock, now>>

IoTimers == \E t \in BagToSet(timers) : IoTimerFire(t)

\* Time passes to the next timer; no handler reads the time in between.
IoAdvance ==
  /\ BagToSet(timers) # {}
  /\ NextDue > now
  /\ NextDue <= IoMaxTime
  /\ now' = NextDue
  /\ sent' = {}
  /\ UNCHANGED <<cap, singleRoom, multiRoom, queuedRoom, socketRoom, timers>>

(* --------------------------- specifications --------------------------- *)
\* Which of the servers runs: the one that has accepted a socket.
SingleRoomIdle == \A c \in Conns : ws[c].status = "NONE"
MultiRoomIdle == \A c \in Conns : conn[c].status = "NONE"
QueuedIdle == \A c \in Conns : qconn[c].status = "NONE"

\* Every socket the queued server has accepted so far has sent its join.
QueuedAllJoined == \A c \in Conns : qconn[c].status = "NONE" \/ qconn[c].participantId # NoId

\* The participant ids a client of the multi-room server can name in a
\* command: the 'joined' and participant_joined events carry the ids of the
\* records of the room.
RoomTargets(c) == UNION {DOMAIN rooms[r].participants : r \in DOMAIN rooms}

\* The votes of the room of socket c stay within MaxTargets targets when t
\* is voted against.
WithinTargets(c, t) ==
  conn[c].roomId \in DOMAIN rooms =>
    Cardinality(DOMAIN rooms[conn[c].roomId].votes \cup {t}) <= MaxTargets

\* Admission, in either server: sockets come and go in every way, joins
\* arrive while others wait for the lock, and the sockets send votes for one
\* participant at a time and requests for a voting round.
NextAdmission ==
  \/ MultiRoomIdle /\ Connect(AdmissionConns) /\ Unnoted
  \/ \E c \in Conns : PeerClose(c) /\ Unnoted
  \/ \E c \in Conns : OnClose(c) /\ Unnoted
  \/ \E c \in Conns : \E ageVerified \in BOOLEAN :
        Join(c) /\ Noted("join", c, <<ageVerified>>)
  \/ \E c \in Conns : \E t \in DOMAIN participants :
        /\ Cardinality(DOMAIN votes \cup {t}) <= MaxTargets
        /\ VoteRemove(c, t)
        /\ UNCHANGED voters
        /\ Unnoted
  \/ \E c \in Conns : RequestVoting(c, 0) /\ Unnoted
  \/ SingleRoomIdle /\ RoomsConnect(RoomConns) /\ Unnoted
  \/ \E c \in Conns : RoomsPeerClose(c) /\ Unnoted
  \/ \E c \in Conns : RoomsOnClose(c) /\ Unnoted
  \/ \E c \in Conns : \E roomId \in 0..MaxRooms : \E ageVerified \in BOOLEAN :
        JoinRequest(c, roomId) /\ Noted("join", c, <<ageVerified, roomId>>)
  \/ \E roomId \in RoomIds :
        /\ JoinRun(roomId)
        /\ Noted("handleJoin", roomJoinLocks[roomId][NextOperation(roomJoinLocks[roomId])],
                 <<roomId>>)
  \/ JoinResume /\ Unnoted
  \/ \E c \in Conns : \E t \in RoomTargets(c) :
        /\ WithinTargets(c, t)
        /\ RoomsVoteRemove(c, t)
        /\ Unnoted
  \/ \E c \in Conns : RoomsRequestVoting(c, 0) /\ Unnoted

SpecAdmission == InitServers(AdmissionCap) /\ [][NextAdmission]_vars

\* No 'close' event waits to be handled.
NoCloseEventPending ==
  \A c \in Conns : conn[c].status \notin {"CLOSING_LOCAL", "CLOSING_REMOTE"}

\* The clock of the multi-room server moves once the pending operations and
\* 'close' events have been handled.
RoomsAdvance == Drained /\ NoCloseEventPending /\ Advance /\ Unnoted

\* Teardown, in the multi-room server: the sockets arrive, join the default
\* room, vote and leave when the server starts, and from then on the clock
\* runs, with the voting schedule and the teardown timers.
NextTeardown ==
  \/ now = 0 /\ RoomsConnect(RoomConns) /\ Unnoted
  \/ \E c \in Conns : now = 0 /\ RoomsPeerClose(c) /\ Unnoted
  \/ \E c \in Conns : RoomsOnClose(c) /\ Unnoted
  \/ \E c \in Conns : now = 0 /\ JoinRequest(c, 0) /\ Unnoted
  \/ \E roomId \in RoomIds : JoinRun(roomId) /\ Unnoted
  \/ JoinResume /\ Unnoted
  \/ \E c \in Conns : now = 0 /\ RoomsRequestVoting(c, 0) /\ Unnoted
  \/ \E c \in Conns : \E t \in RoomTargets(c) :
        /\ WithinTargets(c, t)
        /\ RoomsVoteRemove(c, t)
        /\ Unnoted
  \/ RoomsTimers /\ Unnoted
  \/ RoomsAdvance

\* The event loop runs what is ready: pending join operations and handlers,
\* 'close' events, due timers, and the clock.
FairTeardown ==
  /\ WF_vars(\E roomId \in RoomIds : JoinRun(roomId) /\ Unnoted)
  /\ WF_vars(JoinResume /\ Unnoted)
  /\ WF_vars(\E c \in Conns : RoomsOnClose(c) /\ Unnoted)
  /\ WF_vars(RoomsTimers /\ Unnoted)
  /\ WF_vars(RoomsAdvance)

SpecTeardown == InitServers(AdmissionCap) /\ [][NextTeardown]_vars /\ FairTeardown

\* Sessions, in the multi-room server: sockets come, join the default room
\* whenever their closure holds no id, and go at any time while the clock,
\* the voting schedule and the teardown timers run.
NextSession ==
  \/ RoomsConnect(RoomConns) /\ Unnoted
  \/ \E c \in Conns : RoomsPeerClose(c) /\ Unnoted
  \/ \E c \in Conns : RoomsOnClose(c) /\ Unnoted
  \/ \E c \in Conns : conn[c].participantId = NoId /\ JoinRequest(c, 0) /\ Unnoted
  \/ \E roomId \in RoomIds : JoinRun(roomId) /\ Unnoted
  \/ JoinResume /\ Unnoted
  \/ \E t \in BagToSet(timers) :
        RoomsTimerFire(t) /\ Noted(t.kind, 0, <<t.room, t.round, t.due>>)
  \/ RoomsAdvance

SpecSession == InitServers(AdmissionCap) /\ [][NextSession]_vars

\* Some record of room r belongs to socket c.
HasRecord(rs, r, c) ==
  r \in DOMAIN rs /\ \E q \in DOMAIN rs[r].participants : rs[r].participants[q].ws = c

\* The join of socket c waits on the lock of room r.
JoinPending(c, r) ==
  /\ r \in DOMAIN roomJoinLocks
  /\ \E k \in 1..Len(roomJoinLocks[r]) : roomJoinLocks[r][k] = c

\* Socket c has a record in some room or a join waiting on some lock.
HasJoined(c) == \E r \in RoomIds : HasRecord(rooms, r, c) \/ JoinPending(c, r)

\* Failing joins, in the multi-room server: sockets come and send a join for
\* a room when they have neither a record nor a join waiting; a
\* join operation runs, or throws; the peers do not close, so that a socket
\* that is not open was rejected by the server.
NextJoinFailure ==
  \/ RoomsConnect(FailConns) /\ Unnoted
  \/ \E c \in Conns : RoomsOnClose(c) /\ Unnoted
  \/ \E c \in Conns : \E roomId \in RoomIds :
        ~HasJoined(c) /\ IsOpen(conn, c) /\ JoinRequest(c, roomId) /\ Unnoted
  \/ \E roomId \in RoomIds : JoinRun(roomId) /\ Unnoted
  \/ \E roomId \in RoomIds : JoinThrow(roomId) /\ Unnoted
  \/ \E roomId \in RoomIds : JoinSkip(roomId) /\ Unnoted
  \/ JoinResume /\ Unnoted

\* The microtasks run: pending join operations, operations chained on a
\* rejected lock, and handlers that resume; so do the 'close' events.
FairJoinFailure ==
  /\ WF_vars(\E roomId \in RoomIds : JoinRun(roomId) /\ Unnoted)
  /\ WF_vars(\E roomId \in RoomIds : JoinSkip(roomId) /\ Unnoted)
  /\ WF_vars(JoinResume /\ Unnoted)
  /\ WF_vars(\E c \in Conns : RoomsOnClose(c) /\ Unnoted)

SpecJoinFailure == InitServers(AdmissionCap) /\ [][NextJoinFailure]_vars /\ FairJoinFailure

\* The queued server alone: sockets come when the server starts, join (also
\* again, then or in a voting round), vote against the first participant
\* and go while the interval and the timeouts run.
NextQueued ==
  \/ now = 0 /\ QueuedConnect(QueuedConns) /\ Unnoted
  \/ \E c \in Conns : QueuedPeerClose(c) /\ Unnoted
  \/ \E c \in Conns : QueuedOnClose(c) /\ Unnoted
  \/ \E c \in Conns :
        /\ now = 0 \/ qroom.sessionPhase = "voting"
        /\ QueuedJoin(c)
        /\ Noted("join", c, <<>>)
  \/ \E c \in Conns : handleVote(c, 1) /\ Unnoted
  \/ QueuedInterval /\ Unnoted
  \/ QueuedTimeouts /\ Unnoted

SpecQueued == InitServers(VotingCap) /\ [][NextQueued]_vars

\* Socket d has sent a join: it holds an id, it waits in the list, it is
\* gone, or a socket that joined after it holds an id or waits.
Arrived(d) ==
  \/ qconn[d].status # "OPEN"
  \/ \E e \in Conns :
        /\ e >= d
        /\ \/ qconn[e].participantId # NoId
           \/ \E k \in 1..Len(qroom.waitingQueue) : qroom.waitingQueue[k] = e

\* The waiting list: more sockets than the room holds arrive, each sending its
\* first join after the sockets accepted before it; a socket without an id
\* that is not in the list joins again at any time; participants leave and
\* are voted out while the schedule runs.
NextWaiting ==
  \/ now = 0 /\ QueuedConnect(WaitingConns) /\ Unnoted
  \/ \E c \in Conns :
        /\ qconn[c].participantId # NoId
        /\ now = 0 \/ qroom.votingRound = 1
        /\ QueuedPeerClose(c)
        /\ Unnoted
  \/ \E c \in Conns : QueuedOnClose(c) /\ Unnoted
  \/ \E c \in Conns :
        /\ qconn[c].participantId = NoId
        /\ \A k \in 1..Len(qroom.waitingQueue) : qroom.waitingQueue[k] # c
        /\ \A d \in Conns : d < c => Arrived(d)
        /\ now = 0 \/ qroom.votingRound = 1
        /\ QueuedJoin(c)
        /\ Unnoted
  \/ \E c \in Conns : qroom.votingRound = 1 /\ handleVote(c, 1) /\ Unnoted
  \/ QueuedInterval /\ Unnoted
  \/ QueuedTimeouts /\ Unnoted

SpecWaiting == InitServers(AdmissionCap) /\ [][NextWaiting]_vars

\* Every socket accepted so far has sent its join.
AllJoined == \A c \in Conns : ws[c].status = "NONE" \/ ws[c].pid # NoId

\* Nobody has been voted out so far.
NobodyEvicted == DOMAIN participants = IssuedIds

\* Voting: the sockets arrive and join one after the other when the server
\* starts; then the schedule runs and the participants vote, for one target
\* at a time, until somebody is voted out.
NextVoting ==
  \/ now = 0 /\ AllJoined /\ Connect(VotingConns) /\ Unnoted
  \/ \E c \in Conns : ws[c].pid = NoId /\ Join(c) /\ Unnoted
  \/ \E c \in Conns : OnClose(c) /\ Unnoted
  \/ \E c \in Conns : \E t \in DOMAIN participants :
        /\ NobodyEvicted
        /\ Cardinality(DOMAIN votes \cup {t}) <= MaxTargets
        /\ VoteRemove(c, t)
        /\ RecordVoter(c, t)
        /\ Unnoted
  \/ \E c \in Conns : NobodyEvicted /\ votingRound = 1 /\ RequestVoting(c, 0) /\ Unnoted
  \/ Timers /\ Unnoted
  \/ (\A c \in 1..VotingConns : ws[c].pid # NoId) /\ Advance /\ Unnoted

SpecVoting == InitServers(VotingCap) /\ [][NextVoting]_vars

\* The phases: a few sockets come and go while the schedule runs, and the
\* participants send request_voting and request_sections_phase.
NextPhase ==
  \/ Connect(PhaseConns) /\ Unnoted
  \/ \E c \in Conns : PeerClose(c) /\ Unnoted
  \/ \E c \in Conns : OnClose(c) /\ Unnoted
  \/ \E c \in Conns : Join(c) /\ Unnoted
  \/ \E c \in Conns : \E r \in 0..3 : RequestVoting(c, r) /\ Unnoted
  \/ \E c \in Conns : RequestSectionsPhase(c) /\ Unnoted
  \/ Timers /\ Unnoted
  \/ Advance /\ Unnoted

SpecPhase == InitServers(AdmissionCap) /\ [][NextPhase]_vars

\* The finite sequences over S of length at most n.
SeqsUpTo(S, n) == UNION {[1..k -> S] : k \in 0..n}

\* Sections, in the single-room server or in the queued one.  Single-room:
\* sockets come and go, participants create sections and accept, a
\* participant is voted out, and the session enters the Sections phase on
\* request.  Queued: each socket joins once, the rounds run on the clock, and
\* in the Sections phase participants create sections, invite and accept.
NextSections ==
  \/ AllJoined /\ QueuedIdle /\ Connect(SectionConns) /\ Unnoted
  \/ \E c \in Conns : PeerClose(c) /\ Unnoted
  \/ \E c \in Conns : OnClose(c) /\ Unnoted
  \/ \E c \in Conns : ws[c].pid = NoId /\ Join(c) /\ Unnoted
  \/ \E c \in Conns : \E inviteeIds \in SeqsUpTo(IssuedIds, SectionCap) :
        /\ votingRound = 0
        /\ sections = <<>> \/ inviteeIds = <<>> \/ Len(inviteeIds) = SectionCap
        /\ CreateSection(c, inviteeIds)
        /\ Noted("create_section", c, <<Len(inviteeIds)>>)
  \/ \E c \in Conns : \E sectionId \in 1..MaxSections :
        AcceptSectionInvitation(c, sectionId) /\ Unnoted
  \/ \E c \in Conns : RequestSectionsPhase(c) /\ Unnoted
  \/ \E c \in Conns :
        /\ votingRound = 0 /\ sessionPhase = "sections" /\ NobodyEvicted
        /\ Len(sections) = 1 /\ Len(sections[1].members) > 1
        /\ RequestVoting(c, 0)
        /\ Unnoted
  \/ \E c \in Conns : \E t \in DOMAIN participants :
        /\ NobodyEvicted
        /\ Cardinality(DOMAIN votes \cup {t}) <= MaxTargets
        /\ VoteRemove(c, t)
        /\ UNCHANGED voters
        /\ Unnoted
  \/ SingleRoomIdle /\ QueuedAllJoined /\ now = 0 /\ QueuedConnect(QueuedConns) /\ Unnoted
  \/ \E c \in Conns : qroom.sessionPhase = "sections" /\ QueuedPeerClose(c) /\ Unnoted
  \/ \E c \in Conns : QueuedOnClose(c) /\ Unnoted
  \/ \E c \in Conns : qconn[c].participantId = NoId /\ QueuedJoin(c) /\ Unnoted
  \/ ~QueuedIdle /\ QueuedAllJoined /\ QueuedInterval /\ Unnoted
  \/ ~QueuedIdle /\ QueuedTimeouts /\ Unnoted
  \/ \E c \in Conns : handleCreateSection(c) /\ Unnoted
  \/ \E c \in Conns : \E targetId \in DOMAIN qroom.participants :
        handleSectionInvite(c, targetId, 1) /\ Unnoted
  \/ \E c \in Conns : \E sectionId \in 1..MaxSections :
        handleAcceptSectionInvite(c, sectionId) /\ Unnoted

SpecSections == InitServers(VotingCap) /\ [][NextSections]_vars

\* The points and radii a client sends.
Grid == [x : 0..MaxCoord, y : 0..MaxY]
Radii == (0 - 1)..MaxRadius
Origin == [x |-> 0, y |-> 0]

\* Erasing in the Open phase: the participants draw, write and erase over a
\* small grid.
NextErase ==
  \/ AllJoined /\ Connect(EraseConns) /\ Unnoted
  \/ \E c \in Conns : ws[c].pid = NoId /\ Join(c) /\ Unnoted
  \/ \E c \in Conns : \E p \in Grid :
        Len(drawings) < MaxDrawings /\ Draw(c, <<p>>) /\ Unnoted
  \/ \E c \in Conns : \E p \in Grid : DrawUpdate(c, <<p>>) /\ Unnoted
  \/ \E c \in Conns : \E p \in Grid : Text(c, p.x, p.y) /\ Unnoted
  \/ \E c \in Conns : \E p \in Grid : \E r \in Radii :
        Erase(c, p.x, p.y, r) /\ Noted("erase", c, <<p.x, p.y, r>>)

SpecErase == InitServers(AdmissionCap) /\ [][NextErase]_vars

\* Section content: once the Sections phase is on, participants come and go,
\* form sections and draw, write and erase at one point.
NextContent ==
  \/ AllJoined /\ Connect(ContentConns) /\ Unnoted
  \/ \E c \in Conns : ws[c].pid = NoId /\ Join(c) /\ Unnoted
  \/ \E c \in Conns : ws[c].pid # NoId /\ RequestSectionsPhase(c) /\ Unnoted
  \/ \E c \in Conns : sessionPhase = "sections" /\ PeerClose(c) /\ Unnoted
  \/ \E c \in Conns : sessionPhase = "sections" /\ OnClose(c) /\ Unnoted
  \/ \E c \in Conns : \E inviteeIds \in SeqsUpTo(IssuedIds, MaxInvitees) :
        sessionPhase = "sections" /\ CreateSection(c, inviteeIds) /\ Unnoted
  \/ \E c \in Conns : \E sectionId \in 1..MaxSections :
        sessionPhase = "sections" /\ AcceptSectionInvitation(c, sectionId) /\ Unnoted
  \/ \E c \in Conns :
        /\ sessionPhase = "sections" /\ Len(drawings) < MaxDrawings
        /\ Draw(c, <<Origin>>)
        /\ Unnoted
  \/ \E c \in Conns : sessionPhase = "sections" /\ DrawUpdate(c, <<Origin>>) /\ Unnoted
  \/ \E c \in Conns : sessionPhase = "sections" /\ Text(c, 0, 0) /\ Unnoted
  \/ \E c \in Conns : sessionPhase = "sections" /\ Erase(c, 0, 0, 0) /\ Unnoted

SpecContent == InitServers(AdmissionCap) /\ [][NextContent]_vars

\* Strokes in the Open phase: the participants start strokes, extend them and
\* write labels, in any order; nobody leaves and nothing is erased, so that
\* every stroke started is still in the store.
NextStrokes ==
  \/ AllJoined /\ Connect(StrokeConns) /\ Unnoted
  \/ \E c \in Conns : ws[c].pid = NoId /\ Join(c) /\ Unnoted
  \/ \E c \in Conns : Len(drawings) < MaxStrokes /\ Draw(c, <<Origin>>) /\ Unnoted
  \/ \E c \in Conns : DrawUpdate(c, <<Origin>>) /\ Noted("draw_update", c, <<>>)
  \/ \E c \in Conns : Text(c, 0, 0) /\ Unnoted

SpecStrokes == InitServers(AdmissionCap) /\ [][NextStrokes]_vars

\* The socket that starts strokes where the reuse of numbers is explored.
Painter == 1

\* Numbers reused: sockets come, join and go in the Open phase; the
\* participant of socket Painter alone starts strokes, and every participant
\* sends draw_update.
NextReuse ==
  \/ Connect(ReuseConns) /\ Unnoted
  \/ \E c \in Conns : PeerClose(c) /\ Unnoted
  \/ \E c \in Conns : OnClose(c) /\ Unnoted
  \/ \E c \in Conns : ws[c].pid = NoId /\ Join(c) /\ Unnoted
  \/ Len(drawings) < MaxStrokes /\ Draw(Painter, <<Origin>>) /\ Unnoted
  \/ \E c \in Conns : DrawUpdate(c, <<Origin>>) /\ Noted("draw_update", c, <<>>)

SpecReuse == InitServers(AdmissionCap) /\ [][NextReuse]_vars

\* Content carried over: the participants draw and write at one point in
\* the Open phase and after it, the Sections phase is requested, sections
\* form, and their members erase around that point.
NextCarryOver ==
  \/ AllJoined /\ Connect(CarryConns) /\ Unnoted
  \/ \E c \in Conns : ws[c].pid = NoId /\ Join(c) /\ Unnoted
  \/ \E c \in Conns : ws[c].pid # NoId /\ RequestSectionsPhase(c) /\ Unnoted
  \/ \E c \in Conns : \E inviteeIds \in SeqsUpTo(IssuedIds, MaxInvitees) :
        sessionPhase = "sections" /\ CreateSection(c, inviteeIds) /\ Unnoted
  \/ \E c \in Conns : \E sectionId \in 1..MaxSections :
        sessionPhase = "sections" /\ AcceptSectionInvitation(c, sectionId) /\ Unnoted
  \/ \E c \in Conns : Len(drawings) < MaxDrawings /\ Draw(c, <<Origin>>) /\ Unnoted
  \/ \E c \in Conns : Text(c, 0, 0) /\ Unnoted
  \/ \E c \in Conns : \E r \in {0, 1} :
        Erase(c, 0, 0, r) /\ Noted("erase", c, <<0, 0, r>>)

SpecCarryOver == InitServers(AdmissionCap) /\ [][NextCarryOver]_vars

\* Stale votes: sockets come, join and go, a participant requests a voting
\* round, and the participants vote for any id, issued or not.
NextStaleVote ==
  \/ Connect(StaleConns) /\ Unnoted
  \/ \E c \in Conns : PeerClose(c) /\ Unnoted
  \/ \E c \in Conns : OnClose(c) /\ Unnoted
  \/ \E c \in Conns : ws[c].pid = NoId /\ Join(c) /\ Unnoted
  \/ \E c \in Conns : votingRound = 0 /\ RequestVoting(c, 0) /\ Unnoted
  \/ \E c \in Conns : \E targetId \in 1..StaleTargets :
        /\ Tally(votes, targetId) < StaleTally
        /\ VoteRemove(c, targetId)
        /\ UNCHANGED voters
        /\ Noted("vote_remove", c, <<targetId>>)

SpecStaleVote == InitServers(AdmissionCap) /\ [][NextStaleVote]_vars

(***************************************************************************)
(* The claims.                                                             *)
(***************************************************************************)

\* The numbers of the open participants of a participant map are pairwise
\* distinct and lie in 1..cap.
DistinctNumbers(w, parts) ==
  LET open == {p \in DOMAIN parts : IsOpen(w, parts[p].ws)}
  IN /\ \A p \in open : parts[p].number \in 1..cap
     /\ \A p \in open : \A q \in open : p # q => parts[p].number # parts[q].number

\* C1: in the room of the single-room server and in every room of the
\* multi-room server, the numbers of the participants whose socket is open
\* are pairwise distinct and lie in 1..capacity.
C1_NumbersDistinct ==
  /\ DistinctNumbers(ws, participants)
  /\ \A r \in DOMAIN rooms : DistinctNumbers(conn, rooms[r].participants)

\* C1 witness: the room is full, and the number 1 that socket 1 was admitted
\* with is now held by another open participant.
C1_Witness ==
  /\ ws[1].num = 1
  /\ \E p \in DOMAIN participants :
       p # ws[1].pid /\ participants[p].number = 1 /\ IsOpen(ws, participants[p].ws)
  /\ getActiveCount(ws, participants) = cap

\* The participant ids of room r in the rooms rs.
RoomMembers(rs, r) == IF r \in DOMAIN rs THEN DOMAIN rs[r].participants ELSE {}

\* C2: the open participants of a room never outnumber the capacity, in
\* either server; a step admits at most one participant per room; and when
\* a join operation leaves the lock of a room, it is the one chained first
\* and the participant admitted, if any, is on its socket.
C2_CapacityUnderConcurrentJoins ==
  [][/\ getActiveCount(ws', participants') <= cap
     /\ Cardinality(DOMAIN participants' \ DOMAIN participants) <= 1
     /\ \A r \in DOMAIN rooms' : Room_getActiveCount(conn', rooms'[r]) <= cap
     /\ \A r \in RoomIds :
          LET admitted == RoomMembers(rooms', r) \ RoomMembers(rooms, r)
          IN /\ Cardinality(admitted) <= 1
             /\ admitted # {} =>
                  /\ r \in DOMAIN roomJoinLocks /\ roomJoinLocks[r] # <<>>
                  /\ \A p \in admitted :
                       rooms'[r].participants[p].ws = Head(roomJoinLocks[r])
             /\ (/\ r \in DOMAIN roomJoinLocks /\ r \in DOMAIN roomJoinLocks'
                 /\ Len(roomJoinLocks'[r]) < Len(roomJoinLocks[r]))
                => roomJoinLocks'[r] = Tail(roomJoinLocks[r])]_vars

\* C2 witness: a room of the multi-room server is full, a join was just
\* processed for it, and the join of another socket waits on its lock.
C2_Witness ==
  \E r \in DOMAIN rooms :
    /\ Room_getActiveCount(conn, rooms[r]) = cap
    /\ joinResults # <<>>
    /\ r \in DOMAIN roomJoinLocks
    /\ \E k \in 1..Len(roomJoinLocks[r]) :
         roomJoinLocks[r][k] # joinResults[Len(joinResults)].ws

\* The step in which the vote of a fourth distinct voter for t is counted.
FourthVoter(t) ==
  /\ Cardinality(VotersOf(voters, t)) < VoteThreshold
  /\ Cardinality(VotersOf(voters', t)) >= VoteThreshold

\* A step that voted t out: the removal notice, or the departure broadcast.
VotedOut(t) ==
  /\ t \in DOMAIN participants
  /\ t \notin DOMAIN participants'
  /\ \E m \in sent' : \/ m.type = "removed" /\ m.to = participants[t].ws
                      \/ m.type = "participant_removed" /\ m.arg[1] = t

\* C3: in the step that counts the vote of the fourth distinct voter of a
\* round for a participant t, a voting round is running before and after
\* (the round's end timer has not fired), t's record is gone after the step,
\* t's number is held by no open participant, and the next allocation
\* returns it whenever it is the lowest free number.
C3_RemovedAtFourthVoter ==
  [][\A t \in DOMAIN participants :
       FourthVoter(t) =>
         /\ votingRound > 0 /\ votingRound' > 0
         /\ t \notin DOMAIN participants'
         /\ participants[t].number \notin getActiveNumbers(ws', participants')
         /\ getAvailableNumber(ws', participants') # 0
         /\ getAvailableNumber(ws', participants') <= participants[t].number
         /\ ((\A n \in 1..(participants[t].number - 1) :
                 n \in getActiveNumbers(ws', participants'))
             => getAvailableNumber(ws', participants') = participants[t].number)]_vars

\* C3 witness: four participants other than t voted for t in a round that is
\* still running, and t is out.
C3_Witness ==
  \E t \in IssuedIds :
    /\ t \notin DOMAIN participants
    /\ votingRound > 0
    /\ Cardinality(VotersOf(voters, t) \ {t}) >= VoteThreshold
    /\ getAvailableNumber(ws, participants) = ws[t].num

\* C4: the tally of a target is the number of distinct voters counted for it
\* since the round started, and a participant is voted out only when four
\* different participants have voted for them.
C4_TallyCountsDistinctVoters ==
  [][/\ \A t \in DOMAIN votes' : votes'[t] <= Cardinality(VotersOf(voters', t))
     /\ \A t \in DOMAIN participants :
          VotedOut(t) => Cardinality(VotersOf(voters', t)) >= VoteThreshold]_vars

\* C5: a voting round starts only from Open, as the round after the last
\* one, and never in the Sections phase; Sections is entered only from Open
\* after round 3, and is never left.
C5_PhaseOrder ==
  [][/\ (votingRound' # votingRound /\ votingRound' > 0)
          => /\ votingRound = 0
             /\ votingRound' = lastRound + 1
             /\ sessionPhase = "open" /\ sessionPhase' = "open"
     /\ (sessionPhase' # sessionPhase)
          => sessionPhase' = "sections" /\ lastRound = 3 /\ votingRound = 0
     /\ (sessionPhase = "sections") => sessionPhase' = "sections"]_vars

\* Participant p is listed in the section at index i.
Listed(p, i) == \E k \in 1..Len(sections[i].members) : sections[i].members[k].id = p

\* C6: every section is locked exactly when every member it lists has
\* accepted, also after members were stripped from it.
C6_LockedIffAllAccepted ==
  \A i \in 1..Len(sections) :
    sections[i].locked <=>
      \A k \in 1..Len(sections[i].members) : sections[i].members[k].accepted

\* C7: no section ever has more than 3 members, in the server where the
\* inviter names the members and in the queued server where they accept one
\* by one; and a create_section of an open participant that names more than
\* 2 invitees is answered with the error and leaves the sections as they
\* are.
C7_SectionSize ==
  [][/\ \A i \in 1..Len(sections') : Len(sections'[i].members) <= SectionCap
     /\ \A i \in 1..Len(qroom'.sections) :
          Len(qroom'.sections[i].members) <= SectionCap
     /\ (/\ last'.op = "create_section"
         /\ last'.arg[1] > SectionCap - 1
         /\ ws[last'.c].pid \in DOMAIN participants
         /\ IsOpen(ws, last'.c))
        => /\ sections' = sections
           /\ Msg(last'.c, "error", 2, 0) \in sent']_vars

\* C7 witness: a section with three members exists, and a create_section was
\* just answered with the size error.
C7_Witness ==
  /\ \E i \in 1..Len(sections) : Len(sections[i].members) = SectionCap
  /\ last.op = "create_section" /\ last.arg[1] > SectionCap - 1
  /\ \E m \in sent : m.type = "error" /\ m.arg[1] = 2 /\ m.to = last.c

\* The labels of ts and the strokes of ds that an erase with centre (x, y)
\* keeps when it removes what lies at a squared distance below r squared.
KeptTexts(ts, x, y, r) ==
  SelectSeq(ts, LAMBDA t : ~((t.x - x) * (t.x - x) + (t.y - y) * (t.y - y) < r * r))
KeptDrawings(ds, x, y, r) ==
  SelectSeq(ds, LAMBDA d :
    ~\E k \in 1..Len(d.paths) :
        (d.paths[k].x - x) * (d.paths[k].x - x)
          + (d.paths[k].y - y) * (d.paths[k].y - y) < r * r)

\* A step that handled an erase of a participant in the Open phase.
OpenErase ==
  last'.op = "erase" /\ ws[last'.c].pid # NoId /\ sessionPhase = "open"

EffectiveRadius(r) == IF r = 0 THEN DefaultRadius ELSE IF r < 0 THEN 0 ELSE r

TaggedDrawings(ds, S) == SelectSeq(ds, LAMBDA d : d.sectionId = S)
TaggedTexts(ts, S) == SelectSeq(ts, LAMBDA t : t.sectionId = S)

\* A step in which socket c handles an erase or a draw_update.
ErasesOrExtends(c) == Erase(c, 0, 0, 0) \/ DrawUpdate(c, <<Origin>>)

\* C9: when an erase or a draw_update of a socket changes the content tagged
\* with a section id S, the participant of that socket is listed in section S.
C9_SectionContentMembersOnly ==
  [][\A c \in Conns : \A S \in 1..MaxSections :
       (/\ ErasesOrExtends(c)
        /\ \/ TaggedDrawings(drawings', S) # TaggedDrawings(drawings, S)
           \/ TaggedTexts(texts', S) # TaggedTexts(texts, S))
       => \E i \in 1..Len(sections) : sections[i].id = S /\ Listed(ws[c].pid, i)]_vars

\* C10: a section that lists a member who has not accepted is unlocked, and
\* in the Sections phase a participant all of whose sections list such a
\* member cannot interact.
C10_UnlockedWhileUnaccepted ==
  /\ \A i \in 1..Len(sections) :
       (\E k \in 1..Len(sections[i].members) : ~sections[i].members[k].accepted)
         => ~sections[i].locked
  /\ sessionPhase = "sections" =>
       \A p \in IssuedIds :
         (\A i \in 1..Len(sections) :
            Listed(p, i) =>
              \E k \in 1..Len(sections[i].members) : ~sections[i].members[k].accepted)
         => ~canInteract(sections, sessionPhase, p)

\* C10 witness: in the Sections phase a section lists a member who accepted
\* and one who did not, while another section is locked.
C10_Witness ==
  /\ sessionPhase = "sections"
  /\ \E i \in 1..Len(sections) :
       /\ \E k \in 1..Len(sections[i].members) : sections[i].members[k].accepted
       /\ \E k \in 1..Len(sections[i].members) : ~sections[i].members[k].accepted
       /\ ~sections[i].locked
  /\ \E i \in 1..Len(sections) : sections[i].locked

\* C11: a join on an open connection that has not been admitted, handled
\* when the room has MAX_PARTICIPANTS active participants, is answered with
\* the full-room error and the connection is closed by the server; the
\* participant records, the votes, the sections, the content, the phase and
\* the timers stay as they are, and so does every other connection.  In the
\* multi-room server the same holds of the join operation when it runs.
C11_FullRoomJoinRejected ==
  [][/\ (/\ last'.op = "join" /\ Len(last'.arg) = 1
         /\ ws[last'.c].pid = NoId
         /\ IsOpen(ws, last'.c)
         /\ getActiveCount(ws, participants) >= cap)
        => /\ Msg(last'.c, "error", 1, 0) \in sent'
           /\ ws'[last'.c].status = "CLOSING_LOCAL"
           /\ \A d \in Conns \ {last'.c} : ws'[d] = ws[d]
           /\ UNCHANGED <<participants, votes, sections, drawings, texts, votingRound,
                          sessionPhase, timers>>
     /\ (/\ last'.op = "handleJoin"
         /\ last'.arg[1] \in DOMAIN rooms
         /\ IsOpen(conn, last'.c)
         /\ Room_getActiveCount(conn, rooms[last'.arg[1]]) >= cap)
        => /\ Msg(last'.c, "error", 1, 0) \in sent'
           /\ conn'[last'.c].status = "CLOSING_LOCAL"
           /\ \A d \in Conns \ {last'.c} : conn'[d] = conn[d]
           /\ UNCHANGED <<rooms, timers, nextId, joinResults>>]_vars

\* C11 witness: a join was just rejected at a full room in which a tally is
\* open.
C11_Witness ==
  /\ last.op = "join" /\ Len(last.arg) = 1
  /\ Msg(last.c, "error", 1, 0) \in sent
  /\ getActiveCount(ws, participants) = cap
  /\ DOMAIN votes # {}
  /\ ws[last.c].status = "CLOSING_LOCAL"


\* The participant records of the multi-room server that hold socket c, as
\* pairs of room and participant id.
RecordsOf(c) ==
  {rp \in UNION {{<<r, q>> : q \in DOMAIN rooms[r].participants} : r \in DOMAIN rooms} :
     rooms[rp[1]].participants[rp[2]].ws = c}

\* C12: in the multi-room server a join on a connection that has been
\* admitted creates no second participant record, so that every connection
\* has at most one participant record.
C12_OneRecordPerConnection == \A c \in Conns : Cardinality(RecordsOf(c)) <= 1


\* C13: a join whose ageVerified field is false creates no participant
\* record and allocates no number (single-room server, where the join is
\* handled in one step).
C13_AgeGate ==
  [][(last'.op = "join" /\ Len(last'.arg) = 1 /\ last'.arg[1] = FALSE)
       => /\ DOMAIN participants' \subseteq DOMAIN participants
          /\ ws'[last'.c].num = ws[last'.c].num]_vars


\* The rooms of the multi-room server in which socket c has a participant
\* record, and the sockets that have a record in room r of rs.
RoomsOf(rs, c) ==
  {r \in DOMAIN rs : \E q \in DOMAIN rs[r].participants : rs[r].participants[q].ws = c}
SocketsOf(rs, r) ==
  IF r \in DOMAIN rs THEN {rs[r].participants[q].ws : q \in DOMAIN rs[r].participants}
  ELSE {}

\* The events of a step reach one room: there is a room such that every
\* message other than the reply to a rejected join goes to a socket that has
\* a record in that room before or after the step.
EventsStayInRoom ==
  MultiRoomIdle \/ \E r \in RoomIds :
    \A m \in sent' : m.type # "error" =>
       m.to \in SocketsOf(rooms, r) \cup SocketsOf(rooms', r)

\* C14: in the multi-room server a connection is a participant of at most
\* one room at any time, and the events of every step are delivered only to
\* connections admitted to the room of that step.
C14_RoomsIsolated ==
  [][/\ \A c \in Conns : Cardinality(RoomsOf(rooms', c)) <= 1
     /\ EventsStayInRoom]_vars


\* The closure variables of every connection of the multi-room server are
\* null, no teardown timer is pending, and no room has left the registry: the
\* teardown is armed by ws.on('close') under "if (roomId && participantId)".
TeardownNeverArmed ==
  /\ \A c \in Conns : conn[c].roomId = 0 /\ conn[c].participantId = NoId
  /\ \A t \in BagToSet(timers) : t.kind # "teardown"
  /\ (nextId > 0 => rooms # EmptyFn)

\* C15: a room is removed from the registry only when none of its
\* participants has an open connection; a teardown callback that finds the
\* room joined again deletes nothing.
C15_NoTeardownWhileActive ==
  [][/\ \A r \in DOMAIN rooms :
          r \notin DOMAIN rooms' => Room_getActiveCount(conn, rooms[r]) = 0
     /\ (/\ last'.op = "teardown"
         /\ last'.arg[1] \in DOMAIN rooms
         /\ Room_getActiveCount(conn, rooms[last'.arg[1]]) > 0)
        => rooms' = rooms /\ roomJoinLocks' = roomJoinLocks]_vars


\* A room of the registry none of whose participants has an open connection.
EmptyRoom(r) == r \in DOMAIN rooms /\ Room_getActiveCount(conn, rooms[r]) = 0

\* C16: a room whose participants have all disconnected does not stay in
\* the registry for ever: it is deleted (5 minutes later, by its teardown
\* timer) unless somebody joins it again.
C16_EmptyRoomDeleted == \A r \in RoomIds : EmptyRoom(r) ~> ~EmptyRoom(r)

\* The Socket.io server alone.  Sockets connect before the clock has moved
\* and join for the first time in the order they connected; the sockets up
\* to IoRepeaters join again and disconnect.  A vote names at most one
\* number, so the participants a round removes hold one number and the order
\* of their removal cannot be seen.
VotedNumbers == {<<1>>}
InviteeNumbers == {<<>>, <<1>>, <<1, 2, 3>>}
IoJoinsInOrder(c) ==
  IF c \in DOMAIN ioroom.participants THEN c <= IoRepeaters
  ELSE \A d \in Conns : d < c => d \in DOMAIN ioroom.participants \/ iosock[d] = "disconnected"

IoAllJoined ==
  \A c \in Conns : iosock[c] = "connected" => c \in DOMAIN ioroom.participants

NextSocketIo ==
  \/ now = 0 /\ IoAllJoined /\ IoConnect(IoConns) /\ Unnoted
  \/ \E c \in Conns : c <= IoRepeaters /\ IoDisconnect(c) /\ Unnoted
  \/ \E c \in Conns : \E ageVerified \in BOOLEAN :
        /\ IoJoinsInOrder(c)
        /\ now = 0 \/ ioroom.votingRounds > 0 \/ ~ioroom.roomActive
        /\ ioroom.nextNumber <= IoMaxNumber
        /\ IoJoin(c, ageVerified)
        /\ Unnoted
  \/ \E c \in Conns : \E votedNumbers \in VotedNumbers :
        /\ \/ /\ ioroom.votingPhase /\ ioroom.votingRounds = 1 /\ NextDue > now
              /\ Cardinality(DOMAIN ioroom.participants) = IoCap
           \/ ~ioroom.votingPhase /\ c <= IoRepeaters
        /\ IoVote(c, votedNumbers)
        /\ Unnoted
  \/ \E c \in Conns : \E inviteeNumbers \in InviteeNumbers :
        /\ ioroom.votingRounds = 3 /\ ~ioroom.votingPhase
        /\ c <= IoCreators
        /\ ioroom.nextSection <= IoMaxSections
        /\ IoCreatePrivateSection(c, inviteeNumbers)
        /\ Noted("createPrivateSection", c, inviteeNumbers)
  \/ \E t \in BagToSet(timers) : IoTimerFire(t) /\ Unnoted
  \/ IoAdvance /\ Unnoted

SpecSocketIo == InitServers(IoCap) /\ [][NextSocketIo]_vars

\* C17: private sections are formed only in the Sections phase: a
\* create_section command handled while the session phase is not Sections
\* leaves the list of sections as it was and sends no section_invitation.
C17_SectionsOnlyInSectionsPhase ==
  [][(last'.op = "create_section" /\ sessionPhase # "sections")
       => /\ sections' = sections
          /\ \A msg \in sent' : msg.type # "section_invitation"]_vars

\* The sockets that hold a record of the Socket.io room.
IoParticipants == DOMAIN ioroom.participants

\* C18: in the Socket.io room every participant's number lies in the pool
\* (1..20 in the source) and no two participants hold the same number,
\* whatever joins, repeated joins, disconnects and removals came before.
C18_NumbersInPoolAndDistinct ==
  \A c \in IoParticipants :
    /\ ioroom.participants[c].number \in 1..PoolSize
    /\ \A d \in IoParticipants :
         c # d => ioroom.participants[c].number # ioroom.participants[d].number

\* C19: once the Socket.io room has started (the first participant has
\* joined and the room timer runs) no step adds a participant.
C19_NoJoinAfterStart ==
  [][(ioroom.roomActive /\ ioroom.startTime)
       => DOMAIN ioroom'.participants \subseteq IoParticipants]_vars

\* The sockets that are members of a locked private section.
LockedMembers(r) ==
  UNION {r.privateSections[sectionId].members :
           sectionId \in {x \in DOMAIN r.privateSections : r.privateSections[x].locked}}

\* C20: a participant becomes a member of a locked private section only in a
\* step that handles a request of that participant's own socket, never in
\* the step of another participant's createPrivateSection.
C20_MembershipByOwnConsent ==
  [][\A c \in LockedMembers(ioroom') \ LockedMembers(ioroom) : last'.c = c]_vars

\* A vote of four has removed a participant of the Socket.io room.
IoRemovalSeen == \E msg \in sent : msg.type = "removed"
\* The room has been reset after its four hours and has started again.
IoRestartSeen == now >= IoMaxTime /\ ioroom.roomActive

\* The voters, other than c, whose ballot of the round names c.
BallotsAgainst(c) == {v \in DOMAIN ioballots : v # c /\ c \in ioballots[v]}

\* The step in which Room.endVotingRound runs.
IoRoundEnds == ioroom.votingPhase /\ ~ioroom'.votingPhase

\* A ballot is accepted in the step: the voter is told success.
IoBallotAccepted == \E msg \in sent' : msg.type = "voteSubmitted" /\ msg.arg[1] = 1

\* C21 as stated: when a round of the Socket.io room ends, a participant
\* still in the room is removed if and only if at least 4 distinct
\* participants submitted a ballot naming them during the round, the voter's
\* own ballot never counting; ballots are accepted only in the voting phase.
C21_RemovedIffFourBallots ==
  [][/\ IoRoundEnds =>
          \A c \in IoParticipants :
             c \notin DOMAIN ioroom'.participants
               <=> Cardinality(BallotsAgainst(c)) >= VoteThreshold
     /\ IoBallotAccepted => ioroom.votingPhase]_vars

\* C21, amended: the ballots that count are those of the voters who are
\* still in the room when the round ends; a voter who leaves takes the
\* ballot along.
C21_RemovedIffFourStandingBallots ==
  [][/\ IoRoundEnds =>
          \A c \in IoParticipants :
             c \notin DOMAIN ioroom'.participants
               <=> Cardinality(BallotsAgainst(c) \cap IoParticipants) >= VoteThreshold
     /\ IoBallotAccepted => ioroom.votingPhase]_vars

\* A round has ended and removed a participant.
C21_Witness == IoRemovalSeen /\ ioroom.votingRounds = 1 /\ ~ioroom.votingPhase

\* C22: the phase schedule is armed once, on the first successful join: at
\* any moment at most one pending timer starts round r, whatever joins came
\* later.
C22_ScheduleArmedOnce ==
  \A t \in BagToSet(timers) :
    t.kind = "start" =>
      /\ CopiesIn(t, timers) <= 1
      /\ \A u \in BagToSet(timers) : (u.kind = "start" /\ u.round = t.round) => u = t

\* The start of the session that armed the start timer noted in last: the
\* timer is due RoundStart(round) after it.
ArmedAt(l) == l.arg[3] - RoundStart(l.arg[2])

\* The step runs the callback of a start timer that a session of the room
\* armed which is not the session the room holds now.
StaleStartTimer ==
  /\ last'.op = "start"
  /\ last'.arg[1] \in DOMAIN rooms
  /\ rooms[last'.arg[1]].startTime # ArmedAt(last')

\* C23: a phase timer armed for a session that has since been torn down
\* changes nothing and broadcasts nothing when it fires, also when a new
\* session exists under the same room id.
C23_StaleTimerIsNoOp ==
  [][StaleStartTimer => (rooms' = rooms /\ sent' = {})]_vars

\* C24: every voting round lasts 60 seconds: from its voting_started the
\* room stays in that round, which no step starts anew, until the step that
\* ends it exactly 60 seconds later; the round neither ends earlier nor
\* runs longer.
C24_RoundLastsSixtySeconds ==
  [][/\ votingRound > 0 =>
          \/ votingRound' = votingRound /\ roundSince' = roundSince
          \/ votingRound' = 0 /\ now = roundSince + RoundDelay
     /\ votingRound' > 0 => now' <= roundSince' + RoundDelay]_vars

\* The step admits the first participant of the session.
FirstAdmission == IssuedIds = {} /\ DOMAIN participants' # {}

\* C25: the session clock starts with the first admission: whenever it
\* happens, the timer that starts round 1 is then due 20 minutes later.
C25_ClockStartsAtFirstAdmission ==
  [][FirstAdmission =>
       BagIn([kind |-> "start", round |-> 1, due |-> now + RoundStart(1)], timers')]_vars

\* The numbers held by the participants of the queued server whose
\* connection is open.
QueuedActiveNumbers ==
  {qroom.participants[p].number :
     p \in {x \in DOMAIN qroom.participants : IsOpen(qconn, qroom.participants[x].ws)}}

\* The participants the step adds to the queued server's room.
QueuedAdmitted == DOMAIN qroom'.participants \ DOMAIN qroom.participants

\* C26: every successful join is given the smallest number of the pool
\* (1..20 in the source) that no active participant holds at that moment,
\* also after numbers were freed out of order.
C26_SmallestFreeNumber ==
  [][\A p \in QueuedAdmitted :
       LET free == (1..MAX_PARTICIPANTS) \ QueuedActiveNumbers
       IN /\ qroom'.participants[p].number \in free
          /\ \A n \in free : qroom'.participants[p].number <= n]_vars

\* A vote of four has removed a participant of the queued server.
QueuedRemovalSeen == \E msg \in sent : msg.type = "participant_removed"

\* The step is the close handler of socket c of the multi-room server, the
\* peer of c closed the connection, and c had been admitted to room r: the
\* room holds a record of c.
ClosesAdmitted(c, r) ==
  /\ conn[c].status = "CLOSING_REMOTE"
  /\ conn'[c].status = "CLOSED"
  /\ HasRecord(rooms, r, c)

\* The participant_left events of participant p with number n for every
\* connection of room r that is open after the step, other than c.
DepartureEvents(c, r, p, n) ==
  Rooms_broadcastToRoom(conn', rooms', r, "participant_left", p, n, c)

\* C27: when the connection of an admitted participant of the multi-room
\* server closes, the close handler's step removes the participant's record
\* from its room, and it broadcasts participant_left to the remaining open
\* connections of the room.
C27_CloseRemovesAndBroadcasts ==
  [][\A c \in Conns : \A r \in RoomIds :
       ClosesAdmitted(c, r) =>
         /\ ~HasRecord(rooms', r, c)
         /\ \A p \in DOMAIN rooms[r].participants :
              rooms[r].participants[p].ws = c =>
                DepartureEvents(c, r, p, rooms[r].participants[p].number)
                  \subseteq sent']_vars

\* Section i has invitees, nobody has left the room since it was created
\* (its first member is the inviter), and the step records the acceptance
\* that makes every invitee of the section accepted.
LastInviteeAccepts(i) ==
  /\ IssuedIds = DOMAIN participants
  /\ i <= Len(sections')
  /\ Len(sections[i].members) > 1
  /\ sections'[i].members # sections[i].members
  /\ \A k \in 2..Len(sections'[i].members) : sections'[i].members[k].accepted

\* The section_joined events of section i for its members.
JoinedEvents(i) ==
  {Msg(participants[sections'[i].members[k].id].ws, "section_joined", sections'[i].id, 0) :
     k \in 1..Len(sections'[i].members)}

\* C28: a section is created with its inviter already accepted: with the
\* acceptance of the last invitee the section is locked and every member is
\* sent section_joined, without an accept of the inviter.
C28_InviterPreAccepted ==
  [][\A i \in 1..Len(sections) :
       LastInviteeAccepts(i) => sections'[i].locked /\ JoinedEvents(i) \subseteq sent']_vars

\* The strokes of the store that the participant with the given number
\* started, by their position.
StrokesOf(number) == {i \in 1..Len(drawings) : drawings[i].number = number}

\* The stroke the participant started last.
LatestStrokeOf(number) == CHOOSE i \in StrokesOf(number) : \A j \in StrokesOf(number) : j <= i

\* C29: a draw_update of participant P appends its points to the stroke P
\* started last whenever that stroke is still in the store, whatever draw,
\* text and draw_update commands of other participants came in between; it
\* changes nothing only when that stroke is gone.
C29_UpdateExtendsOwnLatestStroke ==
  [][(last'.op = "draw_update" /\ ws[last'.c].pid # NoId) =>
       LET number == ws[last'.c].num
       IN IF StrokesOf(number) = {} THEN drawings' = drawings
          ELSE /\ Len(drawings') = Len(drawings)
               /\ \A i \in 1..Len(drawings) :
                    IF i = LatestStrokeOf(number)
                    THEN /\ drawings'[i].number = number
                         /\ Len(drawings'[i].paths) > Len(drawings[i].paths)
                         /\ SubSeq(drawings'[i].paths, 1, Len(drawings[i].paths))
                              = drawings[i].paths
                    ELSE drawings'[i] = drawings[i]]_vars

\* The step handles an erase, in the Sections phase, of a participant who is
\* allowed to interact.
SectionsErase ==
  /\ last'.op = "erase"
  /\ sessionPhase = "sections"
  /\ ws[last'.c].pid # NoId
  /\ canInteract(sections, sessionPhase, ws[last'.c].pid)

\* The strokes, and the labels, tagged with section S (0 for null) that the
\* erase circle with centre (x, y) and the given radius strictly contains.
CoveredDrawings(S, x, y, eraseRadius) ==
  {drawings[i] : i \in {j \in 1..Len(drawings) :
                          /\ drawings[j].sectionId = S
                          /\ shouldErase(drawings[j], x, y, eraseRadius)}}
CoveredTexts(S, x, y, eraseRadius) ==
  {texts[i] : i \in {j \in 1..Len(texts) :
                       /\ texts[j].sectionId = S
                       /\ DistLess(texts[j], x, y, eraseRadius)}}

\* C30: in the Sections phase an erase of a participant allowed to interact
\* removes every element with a null sectionId that its circle strictly
\* contains, and it removes no element tagged with another section than
\* the requester's.
C30_NullErasableOthersUntouched ==
  [][SectionsErase =>
       LET own == getParticipantSection(sections, sessionPhase, ws[last'.c].pid)
           eraseRadius == EraseRadius(last'.arg[3])
       IN /\ \A d \in CoveredDrawings(0, last'.arg[1], last'.arg[2], eraseRadius) :
               \A i \in 1..Len(drawings') : drawings'[i] # d
          /\ \A text \in CoveredTexts(0, last'.arg[1], last'.arg[2], eraseRadius) :
               \A i \in 1..Len(texts') : texts'[i] # text
          /\ \A S \in (1..MaxSections) \ {own} :
               /\ TaggedDrawings(drawings', S) = TaggedDrawings(drawings, S)
               /\ TaggedTexts(texts', S) = TaggedTexts(texts, S)]_vars

\* The step counts the first vote of participant p for p themself.
SelfVote(p) == p \notin VotersOf(voters, p) /\ p \in VotersOf(voters', p)

\* C31: a vote_remove whose target is the voter is a no-op: it changes no
\* tally, no vote_update is sent, and the voter is not removed by it.
C31_SelfVoteIsNoOp ==
  [][\A p \in DOMAIN participants :
       SelfVote(p) =>
         /\ votes' = votes
         /\ \A msg \in sent' : msg.type # "vote_update"
         /\ p \in DOMAIN participants']_vars

\* The step handles a vote_remove of a participant, in a voting round, whose
\* targetId is not the id of a participant with an open connection.
StaleVote ==
  /\ last'.op = "vote_remove"
  /\ VoteCounts(last'.c)
  /\ ~(/\ last'.arg[1] \in DOMAIN participants
       /\ IsOpen(ws, participants[last'.arg[1]].ws))

\* C32: a vote_remove whose targetId is not an active participant (never
\* existed, disconnected or evicted) is ignored: the tallies stay as they
\* are and no vote_update is broadcast.
C32_StaleVoteIgnored ==
  [][StaleVote => (votes' = votes /\ \A msg \in sent' : msg.type # "vote_update")]_vars

\* The step frees a slot of the queued server's room: a participant record
\* goes, by a disconnect or by a vote.
SlotFreed == \E p \in DOMAIN qroom.participants : p \notin DOMAIN qroom'.participants

\* Socket c is in the waiting list of room r.
Waits(r, c) == \E k \in 1..Len(r.waitingQueue) : r.waitingQueue[k] = c

\* The step tells the head of the waiting list that it has a place.
HeadNotified ==
  \E msg \in sent' : /\ msg.to = Head(qroom.waitingQueue)
                     /\ msg.type \in {"spot_available", "joined"}

\* C33: in the queued server, whenever a slot frees while somebody waits,
\* the head of the waiting list is the one that is notified, and no socket
\* is admitted while a socket that sent its join earlier is waiting.
C33_WaitingListIsFifo ==
  [][/\ (SlotFreed /\ qroom.waitingQueue # <<>>) => HeadNotified
     /\ \A p \in QueuedAdmitted :
          \A d \in Conns :
             (d < qroom'.participants[p].ws /\ Waits(qroom, d)) => ~Waits(qroom', d)]_vars

\* C34: every id in a section's member list is the id of a participant
\* record, and no section with an empty member list is in the section list,
\* whatever disconnects, vote evictions and sweeps of dead connections came
\* before.
C34_SectionsListParticipants ==
  \A i \in 1..Len(sections) :
    /\ Len(sections[i].members) > 0
    /\ \A k \in 1..Len(sections[i].members) :
         sections[i].members[k].id \in DOMAIN participants

\* C34 witness: a section still lists a member after a member of it left, a
\* section left without members was destroyed, and participants have gone.
C34_Witness ==
  /\ \E i \in 1..Len(sections) :
       /\ Len(sections[i].members) = 1
       /\ ~sections[i].locked
       /\ sections[i].members[1].accepted
  /\ nextSec - 1 > Len(sections)
  /\ IssuedIds \ DOMAIN participants # {}

\* C35: the votes cast in a voting round are kept until the round ends:
\* while a round is on before and after a step, the tally of no target that
\* stays in the room decreases, whatever timer or command the step runs.
C35_TallyKeptWithinRound ==
  [][(votingRound > 0 /\ votingRound' > 0) =>
       \A t \in DOMAIN votes \cap DOMAIN participants' :
          Tally(votes', t) >= votes[t]]_vars

\* C36: a draw_update never changes a stroke that another participant
\* started, also when the sender holds the number its starter held.  Where
\* the participant of socket Painter alone starts strokes, the draw_update
\* of any other socket leaves the strokes as they are.
C36_UpdateSparesOthersStrokes ==
  [][(last'.op = "draw_update" /\ last'.c # Painter) => drawings' = drawings]_vars

\* The places, section index and position in its member list, where
\* participant p is listed.
PlacesOf(p) ==
  {<<i, k>> \in (1..Len(sections)) \X (1..SectionCap) :
     k <= Len(sections[i].members) /\ sections[i].members[k].id = p}

\* C37: in the single-room server every participant id occurs in at most
\* one section, and at most once in its member list, whatever create_section
\* and accept_section_invitation commands came before.
C37_OnePlacePerParticipant ==
  \A p \in IssuedIds : Cardinality(PlacesOf(p)) <= 1

\* Socket c is in the member set of private section s of the Socket.io room.
IoMemberOf(c, s) ==
  s \in DOMAIN ioroom.privateSections /\ c \in ioroom.privateSections[s].members

\* C38: in the Socket.io room a participant's inPrivateSection is s exactly
\* when the participant's socket is in the member set of private section s.
C38_InPrivateSectionIsMembership ==
  \A c \in IoParticipants : \A s \in 1..IoMaxSections :
    (ioroom.participants[c].inPrivateSection = s) <=> IoMemberOf(c, s)

\* The numbers of the queued server's room that records of sockets other than
\* c hold.
NumbersHeldApartFrom(c) ==
  {qroom.participants[p].number :
     p \in {x \in DOMAIN qroom.participants : qroom.participants[x].ws # c}}

\* C39: in the queued-admission server, once a connection has closed, no
\* participant record of the room refers to it and every number it was given
\* is back in the pool (a number outside the pool is held by the record of
\* another connection), whatever joins the connection sent before closing.
C39_ClosedConnectionLeavesNothing ==
  \A c \in Conns :
    qconn[c].status = "CLOSED" =>
      /\ \A p \in DOMAIN qroom.participants : qroom.participants[p].ws # c
      /\ \A n \in 1..MAX_PARTICIPANTS :
           n \notin qroom.availableNumbers => n \in NumbersHeldApartFrom(c)

\* The join of socket c for room r was processed: c was admitted (the room
\* holds a record of c), or it was rejected (the server closed the socket).
JoinProcessed(c, r) == HasRecord(rooms, r, c) \/ ~IsOpen(conn, c)

\* C40: in the multi-room server a join operation that throws does not block
\* the lock of its room: every join request that waits on the lock of a room,
\* also one that arrives after an operation of that room has thrown, is
\* processed in the end, and its socket is admitted or rejected.
C40_FailedJoinDoesNotBlockLock ==
  \A c \in Conns : \A r \in RoomIds : JoinPending(c, r) ~> JoinProcessed(c, r)

====
